---- MODULE Spec2Model ----
(***************************************************************************)
(* State machine of SecretHitlerGame (src/game.py): construction, the      *)
(* start_game loop and the steps of single_round, with every decision of   *)
(* an agent (nomination, ballots, discards, veto, executive targets) and   *)
(* every random.shuffle / random.choice as a nondeterministic input.       *)
(*                                                                         *)
(* Players are named by their seat 1..n in self.players; NoName is None.   *)
(* president_index keeps the code's 0-based value.                         *)
(*                                                                         *)
(* random.shuffle leaves the deck in an order nobody has looked at.  The   *)
(* model keeps the shuffled pile by its contents (deck.L, deck.F) and      *)
(* fixes the order card by card when cards are taken or peeked; the cards  *)
(* a policy peek has looked at stay, in order, in deck.seen on top of the  *)
(* pile.  This yields the same draws as fixing the whole order at shuffle  *)
(* time.  The discard pile is read only by the reshuffle, which erases its *)
(* order, so it is kept by its contents.                                   *)
(***************************************************************************)
EXTENDS Integers, Sequences, FiniteSets, TLC

\* ---------------------------------------------------------------- bounds
\* Rounds explored by Spec and SpecVote (start_game itself has no limit).
RoundCap == 6
\* round_no and election_tracker are exact below CounterCap and stay there
\* once they reach it (Python's integers are unbounded).
CounterCap == 12

\* Largest len(player_configs) and len(roles) that SpecSetup constructs.
SetupMax == 5

\* ------------------------------------------------------------- constants
NoName == 0
NoWinner == "None"
Card == {"Liberal", "Fascist"}
Ballot == {"JA", "NEIN", "ABSTAIN"}
Role == {"Liberal", "Fascist", "Hitler"}
LiberalCards == 6
FascistCards == 11
LiberalGoal == 5
FascistGoal == 6
HitlerZone == 3
VetoZone == 5
TrackerMax == 3
SmallTable == 6
MidTable == 8

VARIABLES
    pc,                             \* position in __init__ / start_game / single_round
    roles,                          \* seat -> role (Player.role)
    knowledge,                      \* seat -> Player.known_allies, .knows_fascists
    alive,                          \* seats with Player.alive
    deck, discard,                  \* self.deck, self.discard
    hand,                           \* draw3 / two_for_chancellor of the running session
    liberal_policies, fascist_policies, election_tracker,   \* self.record.*
    winner,
    veto_unlocked,
    special_next_president_name, special_return_president_name,
    special_in_effect,              \* local of single_round
    president_index, last_elected_president, last_elected_chancellor,
    round_no,                       \* local of start_game
    president, nominee,             \* locals of single_round
    votes, passed,                  \* locals of single_round
    record,                         \* self.record: the record of the running round
    runner,                         \* the MultiGameRunner object and its run_games call
    agents,                         \* the Player objects of player.py and their last call
    client                          \* a MultiLLMClient.chat call

\* The objects beside the game.
others == <<runner, agents, client>>

vars == <<pc, roles, knowledge, alive, deck, discard, hand, liberal_policies, fascist_policies,
          election_tracker, winner, veto_unlocked, special_next_president_name,
          special_return_president_name, special_in_effect, president_index,
          last_elected_president, last_elected_chancellor, round_no, president,
          nominee, votes, passed, record, runner, agents, client>>

\* --------------------------------------------------------------- helpers
Range(s) == {s[i] : i \in DOMAIN s}
CountIn(s, c) == Cardinality({i \in DOMAIN s : s[i] = c})
Min(a, b) == IF a < b THEN a ELSE b

\* x += 1 on a counter
Count(x) == IF x < CounterCap THEN x + 1 ELSE x

\* [p for p in self.players if p.alive], as seats in player order
AliveList(al) ==
    [i \in 1..Cardinality(al) |->
        CHOOSE x \in al : Cardinality({y \in al : y < x}) = i - 1]

\* list.index(x), 1-based
IndexOf(s, x) == CHOOSE i \in DOMAIN s : s[i] = x /\ \A j \in 1..(i - 1) : s[j] # x

\* list.remove(x): drops the first occurrence
RemoveFirst(s, x) ==
    LET i == IndexOf(s, x)
    IN  [j \in 1..(Len(s) - 1) |-> IF j < i THEN s[j] ELSE s[j + 1]]

\* -------------------------------------------------------------- the deck
EmptyPile == [L |-> 0, F |-> 0]
PileLen(p) == p.L + p.F
\* A discard that never reaches the pile.
PileKept(p, c) == p

\* self.discard.append(c)
PileAdd(p, c) == IF c = "Liberal" THEN [p EXCEPT !.L = @ + 1] ELSE [p EXCEPT !.F = @ + 1]
PileExtend(p, s) ==
    [L |-> p.L + CountIn(s, "Liberal"), F |-> p.F + CountIn(s, "Fascist")]

DeckLen(d) == Len(d.seen) + d.L + d.F
DeckCount(d, c) == CountIn(d.seen, c) + (IF c = "Liberal" THEN d.L ELSE d.F)

\* self.deck = ["Liberal"] * 6 + ["Fascist"] * 11; random.shuffle(self.deck)
NewDeck == [seen |-> <<>>, L |-> LiberalCards, F |-> FascistCards]

\* A reshuffle that replaces the deck by the discard pile.
ReshuffledDiscardOnly(d, disc) == [seen |-> <<>>, L |-> disc.L, F |-> disc.F]

\* A reshuffle that shuffles the deck without taking in the discard pile.
ReshuffledDeckOnly(d, disc) ==
    [seen |-> <<>>, L |-> DeckCount(d, "Liberal"), F |-> DeckCount(d, "Fascist")]

\* self.deck += self.discard; random.shuffle(self.deck)
Reshuffled(d, disc) ==
    [seen |-> <<>>,
     L |-> DeckCount(d, "Liberal") + disc.L,
     F |-> DeckCount(d, "Fascist") + disc.F]

\* One pass of `while len(self.deck) < k:` (draw_policies, policy_peek).
Refill(d, disc, k) ==
    IF DeckLen(d) < k
    THEN [deck |-> Reshuffled(d, disc), discard |-> EmptyPile]
    ELSE [deck |-> d, discard |-> disc]

\* The while loop never ends when deck and discard together hold fewer than k.
RefillHangs(d, disc, k) == DeckLen(Refill(d, disc, k).deck) < k

\* The possible values of self.deck[:k].
Tops(d, k) ==
    {s \in [1..k -> Card] :
        /\ \A i \in 1..Min(k, Len(d.seen)) : s[i] = d.seen[i]
        /\ LET rest == {i \in 1..k : i > Len(d.seen)}
           IN  /\ Cardinality({i \in rest : s[i] = "Liberal"}) <= d.L
               /\ Cardinality({i \in rest : s[i] = "Fascist"}) <= d.F}

\* A draw that leaves the drawn cards in the deck.
DeckUntaken(d, out) == d

\* self.deck = self.deck[k:], given out = self.deck[:k]
DeckAfterTake(d, out) ==
    LET k == Len(out)
        m == Len(d.seen)
    IN  IF k <= m
        THEN [d EXCEPT !.seen = SubSeq(d.seen, k + 1, m)]
        ELSE [seen |-> <<>>,
              L |-> d.L - CountIn(SubSeq(out, m + 1, k), "Liberal"),
              F |-> d.F - CountIn(SubSeq(out, m + 1, k), "Fascist")]

\* A peek that takes the three cards off the deck.
DeckPeekTaken(d, top3) == DeckAfterTake(d, top3)

\* top3 = self.deck[:3] without removing: the three cards are now known.
DeckAfterPeek(d, top3) ==
    LET m == Len(d.seen)
    IN  IF Len(top3) <= m
        THEN d
        ELSE [seen |-> top3,
              L |-> d.L - CountIn(SubSeq(top3, m + 1, Len(top3)), "Liberal"),
              F |-> d.F - CountIn(SubSeq(top3, m + 1, Len(top3)), "Fascist")]

\* ------------------------------------------------------------- the roles
\* setup[n] of assign_roles: <<Liberal, Fascist, Hitler>> counts
SetupTable(n) ==
    CASE n = 5 -> <<3, 1, 1>>
      [] n = 6 -> <<4, 1, 1>>
      [] n = 7 -> <<4, 2, 1>>
      [] n = 8 -> <<5, 2, 1>>
      [] n = 9 -> <<5, 3, 1>>
      [] n = 10 -> <<6, 3, 1>>

SupportedCounts == 5..10

\* roles = [L]*Lc + [F]*Fc + [H]*Hc
RoleList(n) ==
    LET t == SetupTable(n)
    IN  [i \in 1..n |->
            IF i <= t[1] THEN "Liberal"
            ELSE IF i <= t[1] + t[2] THEN "Fascist" ELSE "Hitler"]

\* A draw of len(lst) roles with replacement, in place of a shuffle.
ShufflesWithRepeats(lst) == [DOMAIN lst -> Range(lst)]

\* random.shuffle(lst): every rearrangement of lst
Shuffles(lst) ==
    {s \in [DOMAIN lst -> Range(lst)] :
        \A r \in Range(lst) : CountIn(s, r) = CountIn(lst, r)}

\* An optional argument: {} is None, {x} is the value x.
None == {}
Some(x) == {x}
TheValue(opt) == CHOOSE x \in opt : TRUE

\* assign_roles(player_configs, roles_opt) for n = len(player_configs)
\* raises: ValueError("Secret Hitler supports 5-10 players."), or the
\* assert len(roles) == n.
AssignRaises(n, roles_opt) ==
    IF roles_opt = None
    THEN n \notin SupportedCounts
    ELSE Len(TheValue(roles_opt)) # n

\* The role lists assign_roles can return when it does not raise.
AssignRoles(n, roles_opt) ==
    IF roles_opt = None THEN Shuffles(RoleList(n)) ELSE {TheValue(roles_opt)}

\* A party report that gives the role away.
PartyIsRole(role) == role

\* _party_of
PartyOf(role) == IF role \in {"Fascist", "Hitler"} THEN "Fascist" ELSE "Liberal"

\* ------------------------------------------------------- pure game rules
\* A vote rule under which half of the ballots is enough.
PassedAtHalf(ja, n) == ja >= (n \div 2)

\* passed = ja > (len(alive) // 2)
Passed(ja, n) == ja > (n \div 2)

\* ja = sum(1 for v in votes.values() if v == "JA")
JaCount(v) == Cardinality({p \in DOMAIN v : v[p] = "JA"})

\* A Hitler trigger that needs more than three Fascist policies.
HitlerTriggerLate(role, fp) == role = "Hitler" /\ fp > HitlerZone

\* A Hitler trigger that ignores the Fascist track.
HitlerTriggerAlways(role, fp) == role = "Hitler"

\* ch_obj.role == "Hitler" and self.record.fascist_policies >= 3
HitlerTrigger(role, fp) == role = "Hitler" /\ fp >= HitlerZone

\* A check_win that recomputes the winner from the tracks alone.
WinnerRecomputed(w, lp, fp) ==
    IF lp >= LiberalGoal THEN "Liberals"
    ELSE IF fp >= FascistGoal THEN "Fascists"
    ELSE NoWinner

\* check_win: the value of self.winner when it returns
WinnerAfterCheck(w, lp, fp) ==
    IF w # NoWinner THEN w
    ELSE IF lp >= LiberalGoal THEN "Liberals"
    ELSE IF fp >= FascistGoal THEN "Fascists"
    ELSE NoWinner

\* check_win: its return value
CheckWin(w, lp, fp) == WinnerAfterCheck(w, lp, fp) # NoWinner

\* self.veto_unlocked = (self.record.fascist_policies >= 5)
VetoUnlocked(fp) == fp >= VetoZone

\* The term-limit set of single_round.
Ineligible(al, lastPres, lastChan) ==
    (IF lastChan # NoName THEN {lastChan} ELSE {})
    \cup (IF Cardinality(al) <= SmallTable /\ lastPres # NoName THEN {lastPres} ELSE {})

\* A track chosen as if every table were a small one.
PowerForSmall(n, fp) ==
    IF fp = 3 THEN "policy_peek"
    ELSE IF fp \in {4, 5} THEN "execution" ELSE "none"

\* The powers list of apply_executive_powers for n alive players and fp
\* Fascist policies; "none" is the empty list.
PowerFor(n, fp) ==
    IF n <= SmallTable
    THEN IF fp = 3 THEN "policy_peek"
         ELSE IF fp \in {4, 5} THEN "execution" ELSE "none"
    ELSE IF n <= MidTable
    THEN IF fp = 2 THEN "investigate"
         ELSE IF fp = 3 THEN "special_election"
         ELSE IF fp \in {4, 5} THEN "execution" ELSE "none"
    ELSE IF fp \in {1, 2} THEN "investigate"
         ELSE IF fp = 3 THEN "special_election"
         ELSE IF fp \in {4, 5} THEN "execution" ELSE "none"

\* A failure that leaves the election tracker where it was.
TrackerUnmoved(t) == t

\* A tracker that stops at two, so that a third failure forces nothing.
TrackerHalted(t) == IF t >= 2 THEN t ELSE Count(t)

\* self.record.election_tracker += 1 (failed vote, accepted veto)
TrackerAfterFailure(t) == Count(t)

\* A rotation that runs off the end of the list.
RotateUnwrapped(idx, n) == idx + 1
\* self.president_index = (self.president_index + 1) % len(alive)
Rotate(idx, n) == (idx + 1) % n

\* ------------------------------------------------ the record's counters
\* GameRecord.top_deck_enact / set_chancellor_discard_and_enact: the policy
\* is put on its track and the election tracker returns to zero.
LiberalAfterEnact(lp, card) == IF card = "Liberal" THEN lp + 1 ELSE lp
FascistAfterEnact(fp, card) == IF card = "Fascist" THEN fp + 1 ELSE fp
TrackerAfterEnact(t) == 0

\* ------------------------------------------------- the record's events
\* GameRecord as start_game and single_round use it: the number of the
\* running round and its government (the president and nominee given to
\* start_government, the number of start_government, record_vote (per
\* voter) and finalize_government calls), the last executive action of the
\* round and, of the rounds before, the last government recorded as passed
\* the last special election recorded and the policy peek recorded since
\* the last president's discard.
NoAction == [action |-> "none"]
NoBallots == [p \in {} |-> 0]
NoGovernment == [round |-> 0, president |-> NoName, chancellor |-> NoName]
NoSpecialElection == [round |-> 0, president |-> NoName, target |-> NoName]
NoPeek == [round |-> 0, seen_policies |-> <<>>]
NoRound ==
    [round |-> 0, government |-> 0, president |-> NoName, nominee |-> NoName,
     ballots |-> NoBallots, finalized |-> 0, action |-> NoAction,
     elected |-> NoGovernment, special_election |-> NoSpecialElection,
     peek |-> NoPeek]
NewRound(rec, n) ==
    [rec EXCEPT !.round = n, !.government = 0, !.ballots = NoBallots,
                !.finalized = 0, !.action = NoAction]
StartGovernment(rec, pres, nom) ==
    [rec EXCEPT !.government = @ + 1, !.president = pres, !.nominee = nom]
\* for p in alive: self.record.record_vote(p.name, v)
RecordVotes(rec, voters) ==
    [rec EXCEPT !.ballots =
        [p \in DOMAIN @ \cup voters |->
            (IF p \in DOMAIN @ THEN @[p] ELSE 0) + (IF p \in voters THEN 1 ELSE 0)]]
FinalizeGovernment(rec, was_passed) ==
    [rec EXCEPT !.finalized = @ + 1,
                !.elected = IF was_passed
                            THEN [round |-> rec.round, president |-> rec.president,
                                  chancellor |-> rec.nominee]
                            ELSE @]
AddExecutiveAction(rec, a) ==
    [rec EXCEPT !.action = a,
                !.special_election =
                    IF a.action = "special_election"
                    THEN [round |-> rec.round, president |-> a.president, target |-> a.target]
                    ELSE @,
                !.peek =
                    IF a.action = "policy_peek"
                    THEN [round |-> rec.round, seen_policies |-> a.seen_policies]
                    ELSE @]

\* self.record.set_president_discard(pres_discard, two_for_chancellor): a
\* discard is recorded after the last policy peek.
SetPresidentDiscard(rec) == [rec EXCEPT !.peek = NoPeek]

\* The arguments of add_executive_action in single_round and
\* apply_executive_powers.
VetoAction(pres, chan, pres_decision) ==
    [action |-> "veto", president |-> pres, chancellor |-> chan, result |-> pres_decision]
InvestigateAction(pres, target, party) ==
    [action |-> "investigate", president |-> pres, target |-> target,
     result |-> party, private_to |-> pres]
SpecialElectionAction(pres, target) ==
    [action |-> "special_election", president |-> pres, target |-> target]
PolicyPeekAction(pres, top3) ==
    [action |-> "policy_peek", president |-> pres, seen_policies |-> top3,
     private_to |-> pres]
ExecutionAction(pres, target) ==
    [action |-> "execution", president |-> pres, target |-> target]

\* ---------------------------------------------------------- construction
\* Role lists passed as `roles` to SecretHitlerGame(player_configs, roles)
\* by the games that Spec plays.
GameRoles ==
    {<<"Liberal", "Fascist", "Liberal", "Hitler", "Liberal">>}

\* The role list of the seven-player games that SpecPowers plays.
PowerRoles ==
    {<<"Liberal", "Fascist", "Liberal", "Hitler", "Liberal", "Fascist", "Liberal">>}

EmptyVotes == [p \in {} |-> "JA"]

\* ------------------------------------------------ _setup_secret_knowledge
\* What a Player knows before _setup_secret_knowledge writes to it.
NoKnowledge == [known_allies |-> {}, knows_fascists |-> FALSE]

\* if len(self.players) <= 6
HitlerKnowsMax == 6

\* fascists = [p for p in self.players if p.role == "Fascist"]
FascistSeats(r) == {p \in DOMAIN r : r[p] = "Fascist"}

\* fascists[0]
FirstSeat(S) == CHOOSE p \in S : \A q \in S : p <= q

\* hitler = next((p for p in self.players if p.role == "Hitler"), None)
HitlerSeat(r) ==
    LET h == {p \in DOMAIN r : r[p] = "Hitler"}
    IN  IF h = {} THEN NoName ELSE FirstSeat(h)

\* len(self.players) <= 6
HitlerKnows(n) == n <= HitlerKnowsMax

\* _setup_secret_knowledge: every Fascist is told the other Fascists and
\* Hitler; at a table of 6 or fewer Hitler is told the first Fascist.
SetupSecretKnowledge(r) ==
    LET fascists == FascistSeats(r)
        hitler == HitlerSeat(r)
    IN  [p \in DOMAIN r |->
            IF p \in fascists
            THEN [known_allies |-> (fascists \ {p}) \cup
                                   (IF hitler # NoName THEN {hitler} ELSE {}),
                  knows_fascists |-> TRUE]
            ELSE IF /\ HitlerKnows(Len(r)) /\ hitler # NoName /\ fascists # {}
                    /\ p = hitler
                 THEN [known_allies |-> {FirstSeat(fascists)},
                       knows_fascists |-> TRUE]
                 ELSE NoKnowledge]

\* SecretHitlerGame.__init__ with the role list r that assign_roles returned
Constructed(r) ==
    [roles |-> r, knowledge |-> SetupSecretKnowledge(r), alive |-> DOMAIN r,
     deck |-> NewDeck, discard |-> EmptyPile]

\* No runner, no Mafia player and no LLM client has been constructed.
NoRunner == [pc |-> "absent"]
NoAgents == [pc |-> "absent"]
NoClient == [pc |-> "absent"]
NoOthers == runner = NoRunner /\ agents = NoAgents /\ client = NoClient

\* The game before __init__ runs.
Unconstructed ==
    /\ pc = "new"
    /\ roles = <<>>
    /\ knowledge = <<>>
    /\ alive = {}
    /\ deck = [seen |-> <<>>, L |-> 0, F |-> 0]
    /\ discard = EmptyPile
    /\ hand = <<>>
    /\ liberal_policies = 0
    /\ fascist_policies = 0
    /\ election_tracker = 0
    /\ winner = NoWinner
    /\ veto_unlocked = FALSE
    /\ special_next_president_name = NoName
    /\ special_return_president_name = NoName
    /\ special_in_effect = FALSE
    /\ president_index = 0
    /\ last_elected_president = NoName
    /\ last_elected_chancellor = NoName
    /\ round_no = 0
    /\ president = NoName
    /\ nominee = NoName
    /\ votes = EmptyVotes
    /\ passed = FALSE
    /\ record = NoRound

\* Before __init__ runs.
InitNew == Unconstructed /\ NoOthers

\* SecretHitlerGame(player_configs, roles_opt) with n = len(player_configs);
\* r is what assign_roles returns.  start_game is entered at pc = "loop".
Construct(n, roles_opt, r) ==
    /\ pc = "new"
    /\ IF AssignRaises(n, roles_opt)
       THEN /\ pc' = "setup_error"
            /\ UNCHANGED <<roles, knowledge, alive, deck, discard>>
       ELSE /\ r \in AssignRoles(n, roles_opt)
            /\ pc' = "loop"
            /\ roles' = Constructed(r).roles
            /\ knowledge' = Constructed(r).knowledge
            /\ alive' = Constructed(r).alive
            /\ deck' = Constructed(r).deck
            /\ discard' = Constructed(r).discard
    /\ UNCHANGED <<hand, liberal_policies, fascist_policies, election_tracker, winner,
                   veto_unlocked, special_next_president_name,
                   special_return_president_name, special_in_effect, president_index,
                   last_elected_president, last_elected_chancellor, round_no,
                   president, nominee, votes, passed>>
    /\ UNCHANGED record
    /\ UNCHANGED others

\* The state in which start_game is called on a game constructed with the
\* role list r.
Started(r) ==
    /\ ~AssignRaises(Len(r), Some(r))
    /\ r \in AssignRoles(Len(r), Some(r))
    /\ pc = "loop"
    /\ roles = Constructed(r).roles
    /\ knowledge = Constructed(r).knowledge
    /\ alive = Constructed(r).alive
    /\ deck = Constructed(r).deck
    /\ discard = Constructed(r).discard
    /\ hand = <<>>
    /\ liberal_policies = 0
    /\ fascist_policies = 0
    /\ election_tracker = 0
    /\ winner = NoWinner
    /\ veto_unlocked = FALSE
    /\ special_next_president_name = NoName
    /\ special_return_president_name = NoName
    /\ special_in_effect = FALSE
    /\ president_index = 0
    /\ last_elected_president = NoName
    /\ last_elected_chancellor = NoName
    /\ round_no = 0
    /\ president = NoName
    /\ nominee = NoName
    /\ votes = EmptyVotes
    /\ passed = FALSE
    /\ record = NoRound
    /\ NoOthers

Init == \E r \in GameRoles : Started(r)

\* ------------------------------------------------------------ start_game
\* single_round returns to the loop of start_game; its locals are gone.
Return ==
    /\ pc' = "loop"
    /\ president' = NoName
    /\ nominee' = NoName
    /\ special_in_effect' = FALSE
    /\ votes' = EmptyVotes
    /\ passed' = FALSE

\* GameRecord.finish_game: self.winner = winner_name; self.auto_save().
\* auto_save opens and writes the record file; an error of open or json.dump
\* (write_ok = FALSE) is raised to the caller.
FinishGameRaises(write_ok) == ~write_ok

\* while not self.check_win(): falls through to announce_winner, which
\* calls self.record.finish_game(self.winner).
EndGame(write_ok) ==
    /\ pc = "loop"
    /\ CheckWin(winner, liberal_policies, fascist_policies)
    /\ winner' = WinnerAfterCheck(winner, liberal_policies, fascist_policies)
    /\ pc' = IF FinishGameRaises(write_ok) THEN "crash" ELSE "done"
    /\ UNCHANGED <<roles, alive, deck, discard, hand, liberal_policies,
                   fascist_policies, election_tracker, veto_unlocked,
                   special_next_president_name, special_return_president_name,
                   special_in_effect, president_index, last_elected_president,
                   last_elected_chancellor, round_no, president, nominee, votes, passed>>
    /\ UNCHANGED record
    /\ UNCHANGED <<knowledge, others>>

\* The loop body up to the nomination: round_no += 1, then single_round
\* selects the president and takes the nominee as the president's agent
\* returns it (reply).  alive[president_index] and next(...) raise when the
\* president cannot be found.
\* Handle Special Election override / alive[self.president_index]
SpecialRound == special_next_president_name # NoName
PresidentFound ==
    IF SpecialRound THEN special_next_president_name \in alive
    ELSE president_index < Cardinality(alive)
\* A president taken from self.players, the dead included.
RoundPresidentOfAll ==
    IF SpecialRound THEN special_next_president_name
    ELSE AliveList(DOMAIN roles)[president_index + 1]

RoundPresident ==
    IF SpecialRound THEN special_next_president_name
    ELSE AliveList(alive)[president_index + 1]

\* The names choose_chancellor_nominee is given (alive_names) that are not in
\* `ineligible`; the president's own name is among them.
LegalNominees ==
    alive \ Ineligible(alive, last_elected_president, last_elected_chancellor)

\* Player.choose_chancellor_nominee: an agent that follows the rules names
\* an eligible player other than itself.
OtherNominees == LegalNominees \ {RoundPresident}

StartRound(reply) ==
    /\ pc = "loop"
    /\ ~CheckWin(winner, liberal_policies, fascist_policies)
    /\ round_no' = Count(round_no)
    /\ IF ~PresidentFound
       THEN /\ pc' = "crash"
            /\ UNCHANGED <<special_next_president_name, special_in_effect,
                           president, nominee, votes>>
       ELSE /\ president' = RoundPresident
            /\ special_next_president_name' = NoName
            /\ special_in_effect' = SpecialRound
            /\ nominee' = reply
            /\ votes' = EmptyVotes
            /\ pc' = "vote"
    /\ UNCHANGED <<roles, alive, deck, discard, hand, liberal_policies,
                   fascist_policies, election_tracker, winner, veto_unlocked,
                   special_return_president_name, president_index,
                   last_elected_president, last_elected_chancellor, passed>>
    /\ record' = IF PresidentFound
                 THEN StartGovernment(NewRound(record, Count(round_no)),
                                      RoundPresident, reply)
                 ELSE NewRound(record, Count(round_no))
    /\ UNCHANGED <<knowledge, others>>

\* ---------------------------------------------------------- single_round
\* The vote: one ballot per alive player, then the tally.
Vote(ballots) ==
    /\ pc = "vote"
    /\ DOMAIN ballots = alive
    /\ votes' = ballots
    /\ passed' = Passed(JaCount(ballots), Cardinality(alive))
    /\ pc' = "government"
    /\ UNCHANGED <<roles, alive, deck, discard, hand, liberal_policies,
                   fascist_policies, election_tracker, winner, veto_unlocked,
                   special_next_president_name, special_return_president_name,
                   special_in_effect, president_index, last_elected_president,
                   last_elected_chancellor, round_no, president, nominee>>
    /\ record' = RecordVotes(record, alive)
    /\ UNCHANGED <<knowledge, others>>

\* if passed: ch_obj = next(p for p in alive if p.name == nominee) raises
\* when the nominee is not an alive player.
NomineeMissing == passed /\ nominee \notin alive

\* Hitler-elected instant win: self.winner = "Fascists"; return
HitlerElected ==
    /\ pc = "government"
    /\ passed /\ ~NomineeMissing
    /\ HitlerTrigger(roles[nominee], fascist_policies)
    /\ winner' = "Fascists"
    /\ Return
    /\ UNCHANGED <<roles, alive, deck, discard, hand, liberal_policies,
                   fascist_policies, election_tracker, veto_unlocked,
                   special_next_president_name, special_return_president_name,
                   president_index, last_elected_president,
                   last_elected_chancellor, round_no>>
    /\ record' = FinalizeGovernment(record, passed)
    /\ UNCHANGED <<knowledge, others>>

\* if not passed: tracker += 1; top-deck at 3, else rotate and return
GovernmentFailed ==
    /\ pc = "government"
    /\ ~passed
    /\ election_tracker' = TrackerAfterFailure(election_tracker)
    /\ IF TrackerAfterFailure(election_tracker) >= TrackerMax
       THEN /\ pc' = "top_deck"
            /\ votes' = EmptyVotes
            /\ UNCHANGED <<president_index, president, nominee, special_in_effect,
                           passed>>
       ELSE /\ president_index' = Rotate(president_index, Cardinality(alive))
            /\ Return
    /\ UNCHANGED <<roles, alive, deck, discard, hand, liberal_policies,
                   fascist_policies, winner, veto_unlocked,
                   special_next_president_name, special_return_president_name,
                   last_elected_president, last_elected_chancellor, round_no>>
    /\ record' = FinalizeGovernment(record, passed)
    /\ UNCHANGED <<knowledge, others>>

\* top = self.draw_policies(1)[0]; self.record.top_deck_enact(top); rotate
TopDeck(out) ==
    /\ pc = "top_deck"
    /\ IF RefillHangs(deck, discard, 1)
       THEN /\ pc' = "hang"
            /\ UNCHANGED <<deck, discard, liberal_policies, fascist_policies,
                           election_tracker, president_index, president, nominee,
                           special_in_effect, votes, passed>>
       ELSE LET r == Refill(deck, discard, 1)
            IN  /\ out \in Tops(r.deck, 1)
                /\ deck' = DeckAfterTake(r.deck, out)
                /\ discard' = r.discard
                /\ liberal_policies' = LiberalAfterEnact(liberal_policies, out[1])
                /\ fascist_policies' = FascistAfterEnact(fascist_policies, out[1])
                /\ election_tracker' = TrackerAfterEnact(election_tracker)
                /\ president_index' = Rotate(president_index, Cardinality(alive))
                /\ Return
    /\ UNCHANGED <<roles, alive, hand, winner, veto_unlocked,
                   special_next_president_name, special_return_president_name,
                   last_elected_president, last_elected_chancellor, round_no>>
    /\ UNCHANGED record
    /\ UNCHANGED <<knowledge, others>>

\* The government passed and Hitler was not elected: on to the session.
GovernmentPassed ==
    /\ pc = "government"
    /\ passed
    /\ IF NomineeMissing
       THEN pc' = "crash"
       ELSE /\ ~HitlerTrigger(roles[nominee], fascist_policies)
            /\ pc' = "session"
    /\ votes' = EmptyVotes
    /\ UNCHANGED <<roles, alive, deck, discard, hand, liberal_policies,
                   fascist_policies, election_tracker, winner, veto_unlocked,
                   special_next_president_name, special_return_president_name,
                   special_in_effect, president_index, last_elected_president,
                   last_elected_chancellor, round_no, president, nominee, passed>>
    /\ record' = IF NomineeMissing THEN record ELSE FinalizeGovernment(record, passed)
    /\ UNCHANGED <<knowledge, others>>

\* draw3 = self.draw_policies(3)
SessionDraw(out) ==
    /\ pc = "session"
    /\ IF RefillHangs(deck, discard, 3)
       THEN /\ pc' = "hang"
            /\ UNCHANGED <<deck, discard, hand>>
       ELSE LET r == Refill(deck, discard, 3)
            IN  /\ out \in Tops(r.deck, 3)
                /\ deck' = DeckAfterTake(r.deck, out)
                /\ discard' = r.discard
                /\ hand' = out
                /\ pc' = "pres_discard"
    /\ UNCHANGED <<roles, alive, liberal_policies, fascist_policies, election_tracker,
                   winner, veto_unlocked, special_next_president_name,
                   special_return_president_name, special_in_effect, president_index,
                   last_elected_president, last_elected_chancellor, round_no,
                   president, nominee, votes, passed>>
    /\ UNCHANGED record
    /\ UNCHANGED <<knowledge, others>>

\* The card a discard step drops: the reply if it is in the hand, else
\* random.choice(hand).
DiscardChoice(reply, pick, cards) == IF reply \in Range(cards) THEN reply ELSE pick

\* The president's discard, then self.veto_unlocked = (fascist_policies >= 5).
PresidentDiscard(reply, pick) ==
    /\ pc = "pres_discard"
    /\ pick \in Range(hand)
    /\ LET pres_discard == DiscardChoice(reply, pick, hand)
       IN  /\ hand' = RemoveFirst(hand, pres_discard)
           /\ discard' = PileAdd(discard, pres_discard)
    /\ veto_unlocked' = VetoUnlocked(fascist_policies)
    /\ pc' = IF VetoUnlocked(fascist_policies) THEN "veto" ELSE "chan_discard"
    /\ UNCHANGED <<roles, alive, deck, liberal_policies, fascist_policies,
                   election_tracker, winner, special_next_president_name,
                   special_return_president_name, special_in_effect, president_index,
                   last_elected_president, last_elected_chancellor, round_no,
                   president, nominee, votes, passed>>
    /\ record' = SetPresidentDiscard(record)
    /\ UNCHANGED <<knowledge, others>>

\* An accepted veto that discards only the first of the two cards.
VetoDiscardsOne(two_for_chancellor) == <<two_for_chancellor[1]>>

\* The cards put on the discard pile by an accepted veto.
VetoDiscards(two_for_chancellor) == two_for_chancellor

\* The chancellor's veto request and the president's answer.  An accepted
\* veto discards both cards, adds one to the tracker and ends the round.
Veto(veto_decision, pres_decision) ==
    /\ pc = "veto"
    /\ IF veto_decision = "VETO" /\ pres_decision = "ACCEPT"
       THEN /\ discard' = PileExtend(discard, VetoDiscards(hand))
            /\ hand' = <<>>
            /\ election_tracker' = TrackerAfterFailure(election_tracker)
            /\ Return
       ELSE /\ pc' = "chan_discard"
            /\ UNCHANGED <<discard, hand, election_tracker, president, nominee,
                           special_in_effect, votes, passed>>
    /\ UNCHANGED <<roles, alive, deck, liberal_policies, fascist_policies, winner,
                   veto_unlocked, special_next_president_name,
                   special_return_president_name, president_index,
                   last_elected_president, last_elected_chancellor, round_no>>
    /\ record' = IF veto_decision = "VETO"
                 THEN AddExecutiveAction(record, VetoAction(president, nominee, pres_decision))
                 ELSE record
    /\ UNCHANGED <<knowledge, others>>

\* Update term limits and rotate the presidency (the end of single_round),
\* with the players alive and the return name left by the executive power.
FinishRound(aliveNow, returnName) ==
    /\ last_elected_president' = president
    /\ last_elected_chancellor' = nominee
    /\ IF special_in_effect /\ returnName # NoName
       THEN /\ president_index' =
                 IF returnName \in aliveNow
                 THEN IndexOf(AliveList(aliveNow), returnName) - 1
                 ELSE Rotate(president_index, Cardinality(aliveNow))
            /\ special_return_president_name' = NoName
       ELSE /\ president_index' = Rotate(president_index, Cardinality(aliveNow))
            /\ special_return_president_name' = returnName
    /\ Return

\* The chancellor's discard and the enactment of the remaining card.
ChancellorDiscard(reply, pick) ==
    /\ pc = "chan_discard"
    /\ pick \in Range(hand)
    /\ LET chan_discard == DiscardChoice(reply, pick, hand)
           enacted == RemoveFirst(hand, chan_discard)[1]
       IN  /\ discard' = PileAdd(discard, chan_discard)
           /\ hand' = <<>>
           /\ liberal_policies' = LiberalAfterEnact(liberal_policies, enacted)
           /\ fascist_policies' = FascistAfterEnact(fascist_policies, enacted)
           /\ election_tracker' = TrackerAfterEnact(election_tracker)
           /\ veto_unlocked' = VetoUnlocked(FascistAfterEnact(fascist_policies, enacted))
           /\ IF enacted = "Fascist"
              THEN /\ pc' = "power"
                   /\ UNCHANGED <<last_elected_president, last_elected_chancellor,
                                  president_index, special_return_president_name,
                                  president, nominee, special_in_effect, votes, passed>>
              ELSE FinishRound(alive, special_return_president_name)
    /\ UNCHANGED <<roles, alive, deck, winner, special_next_president_name,
                   round_no>>
    /\ UNCHANGED record
    /\ UNCHANGED <<knowledge, others>>

\* ------------------------------------------------ apply_executive_powers
ThePower == PowerFor(Cardinality(alive), fascist_policies)

PowerFrame ==
    UNCHANGED <<roles, hand, liberal_policies, fascist_policies, election_tracker,
                veto_unlocked, round_no>>

\* A Fascist policy without a power on the track.
NoPower ==
    /\ pc = "power"
    /\ ThePower = "none"
    /\ FinishRound(alive, special_return_president_name)
    /\ PowerFrame
    /\ UNCHANGED <<alive, deck, discard, winner, special_next_president_name>>
    /\ UNCHANGED record
    /\ UNCHANGED <<knowledge, others>>

\* investigate: the party of the target is recorded for the president.
Investigate(reply) ==
    /\ pc = "power"
    /\ ThePower = "investigate"
    /\ IF reply \in DOMAIN roles
       THEN FinishRound(alive, special_return_president_name)
       ELSE /\ pc' = "crash"
            /\ UNCHANGED <<last_elected_president, last_elected_chancellor,
                           president_index, special_return_president_name,
                           president, nominee, special_in_effect, votes, passed>>
    /\ PowerFrame
    /\ UNCHANGED <<alive, deck, discard, winner, special_next_president_name>>
    /\ record' = IF reply \in DOMAIN roles
                 THEN AddExecutiveAction(record,
                          InvestigateAction(president, reply, PartyOf(roles[reply])))
                 ELSE record
    /\ UNCHANGED <<knowledge, others>>

\* order[(curr_idx + 1) % len(order)]: the alive player after the president
LeftOf(al, p) ==
    LET order == AliveList(al)
    IN  order[((IndexOf(order, p) - 1 + 1) % Len(order)) + 1]

\* special_election: the target presides over the next round.
SpecialElection(reply) ==
    /\ pc = "power"
    /\ ThePower = "special_election"
    /\ special_next_president_name' = reply
    /\ FinishRound(alive, LeftOf(alive, president))
    /\ PowerFrame
    /\ UNCHANGED <<alive, deck, discard, winner>>
    /\ record' = AddExecutiveAction(record, SpecialElectionAction(president, reply))
    /\ UNCHANGED <<knowledge, others>>

\* policy_peek: top3 = self.deck[:3] after the refill loop
PolicyPeek(top3) ==
    /\ pc = "power"
    /\ ThePower = "policy_peek"
    /\ IF RefillHangs(deck, discard, 3)
       THEN /\ pc' = "hang"
            /\ UNCHANGED <<deck, discard, last_elected_president,
                           last_elected_chancellor, president_index,
                           special_return_president_name, president, nominee,
                           special_in_effect, votes, passed>>
       ELSE LET r == Refill(deck, discard, 3)
            IN  /\ top3 \in Tops(r.deck, 3)
                /\ deck' = DeckAfterPeek(r.deck, top3)
                /\ discard' = r.discard
                /\ FinishRound(alive, special_return_president_name)
    /\ PowerFrame
    /\ UNCHANGED <<alive, winner, special_next_president_name>>
    /\ record' = IF RefillHangs(deck, discard, 3)
                 THEN record
                 ELSE AddExecutiveAction(record, PolicyPeekAction(president, top3))
    /\ UNCHANGED <<knowledge, others>>

\* The executed player: the agent's target, or a random other player when
\* the target is the president.
ExecutionTarget(reply, pick, al, pres) == IF reply = pres THEN pick ELSE reply

\* An execution that never decides the game.
WinnerKept(w, role) == w

\* self.winner after the execution of a player with this role
WinnerAfterExecution(w, role) == IF role = "Hitler" THEN "Liberals" ELSE w

\* execution: skipped with 2 or fewer alive; the action is recorded, then
\* next(p for p in self.players if p.name == target) raises for a name of no
\* player; Hitler's death ends the game.
Execution(reply, pick) ==
    /\ pc = "power"
    /\ ThePower = "execution"
    /\ IF Cardinality(alive) <= 2
       THEN /\ FinishRound(alive, special_return_president_name)
            /\ UNCHANGED <<alive, winner, record>>
       ELSE /\ pick \in alive \ {president}
            /\ LET target == ExecutionTarget(reply, pick, alive, president)
               IN  /\ record' = AddExecutiveAction(record, ExecutionAction(president, target))
                   /\ IF target \in DOMAIN roles
                      THEN /\ alive' = alive \ {target}
                           /\ winner' = WinnerAfterExecution(winner, roles[target])
                           /\ FinishRound(alive \ {target}, special_return_president_name)
                      ELSE /\ pc' = "crash"
                           /\ UNCHANGED <<alive, winner, last_elected_president,
                                          last_elected_chancellor, president_index,
                                          special_return_president_name, president,
                                          nominee, special_in_effect, votes, passed>>
    /\ PowerFrame
    /\ UNCHANGED <<deck, discard, special_next_president_name>>
    /\ UNCHANGED <<knowledge, others>>

\* ------------------------------------------------------ the agents' inputs
Seats == DOMAIN roles
Replies == Seats \cup {NoName}
CardReplies == Card \cup {"None"}
Hands == [1..3 -> Card]
VetoReplies == {"VETO", "ENACT"}
AcceptReplies == {"ACCEPT", "REJECT"}

\* Every combination of ballots.
AllProfiles == [alive -> Ballot]

\* The first k alive players vote JA, the others NEIN: every tally.
TallyProfiles ==
    {[p \in alive |-> IF Cardinality({q \in alive : q <= p}) <= k THEN "JA" ELSE "NEIN"] :
        k \in 0..Cardinality(alive)}

\* A president who names the lowest eligible seat other than its own.
LowestLegal ==
    IF pc = "loop" /\ PresidentFound /\ OtherNominees # {}
    THEN CHOOSE x \in OtherNominees : \A y \in OtherNominees : x <= y
    ELSE NoName

\* The first card of the hand (the pick of a random.choice that is not needed
\* when the reply is a card of the hand).
FirstCard == IF hand # <<>> THEN hand[1] ELSE "None"

\* ------------------------------------------------------- specifications
\* The steps that ask no agent and draw no card.
Internal ==
    \/ EndGame(TRUE)
    \/ HitlerElected
    \/ GovernmentFailed
    \/ GovernmentPassed
    \/ NoPower

\* The draws, with every order the shuffle can have left.
Draws ==
    \/ \E out \in [1..1 -> Card] : TopDeck(out)
    \/ \E out \in Hands : SessionDraw(out)
    \/ \E top3 \in Hands : PolicyPeek(top3)

\* Every decision of every agent, with the ballots up to their tally; at most
\* RoundCap rounds.
Next ==
    \/ Internal
    \/ Draws
    \/ \E reply \in Replies :
           round_no < RoundCap /\ StartRound(reply)
    \/ \E b \in TallyProfiles : Vote(b)
    \/ \E reply \in CardReplies, pick \in Card : PresidentDiscard(reply, pick)
    \/ \E v \in VetoReplies, a \in AcceptReplies : Veto(v, a)
    \/ \E reply \in CardReplies, pick \in Card : ChancellorDiscard(reply, pick)
    \/ \E reply \in Replies, pick \in Seats : Execution(reply, pick)

Spec == Init /\ [][Next]_vars

\* Every combination of ballots, with presidents who name the lowest legal
\* seat and governments that discard a Liberal policy when they hold one; at
\* most RoundCap rounds.
NextVote ==
    \/ Internal
    \/ Draws
    \/ \E reply \in Replies :
           round_no < RoundCap /\ reply = LowestLegal /\ StartRound(reply)
    \/ \E b \in AllProfiles : Vote(b)
    \/ \E pick \in Card : pick = FirstCard /\ PresidentDiscard("Liberal", pick)
    \/ \E v \in VetoReplies, a \in AcceptReplies : Veto(v, a)
    \/ \E pick \in Card : pick = FirstCard /\ ChancellorDiscard("Liberal", pick)
    \/ \E reply \in Replies, pick \in Seats : Execution(reply, pick)

SpecVote == Init /\ [][NextVote]_vars

\* Games of any length in which every government is voted in: presidents
\* who name the lowest legal seat, governments that discard a Liberal policy
\* when they hold one, any veto decision and any execution target.
NextLive ==
    \/ EndGame(TRUE)
    \/ HitlerElected
    \/ GovernmentPassed
    \/ NoPower
    \/ \E out \in Hands : SessionDraw(out)
    \/ \E top3 \in Hands : PolicyPeek(top3)
    \/ \E reply \in Replies : reply = LowestLegal /\ StartRound(reply)
    \/ \E b \in {[p \in alive |-> "JA"]} : Vote(b)
    \/ \E pick \in Card : pick = FirstCard /\ PresidentDiscard("Liberal", pick)
    \/ \E v \in VetoReplies, a \in AcceptReplies : Veto(v, a)
    \/ \E pick \in Card : pick = FirstCard /\ ChancellorDiscard("Liberal", pick)
    \/ \E reply \in Replies, pick \in Seats : Execution(reply, pick)

\* start_game runs on as long as it has a step to take.
SpecLive == Init /\ [][NextLive]_vars /\ WF_vars(NextLive)

\* assign_roles on every supported player count, without a role list
NextRoles ==
    \E n \in SupportedCounts :
        \E r \in AssignRoles(n, None) : Construct(n, None, r)

SpecRoles == InitNew /\ [][NextRoles]_vars

\* Seven-player games in which every government is voted in and discards a
\* Liberal policy when it holds one, with every target an agent can name for
\* an executive power and every veto decision; at most RoundCap rounds.
InitPowers == \E r \in PowerRoles : Started(r)
NextPowers ==
    \/ EndGame(TRUE)
    \/ HitlerElected
    \/ GovernmentPassed
    \/ NoPower
    \/ \E out \in Hands : SessionDraw(out)
    \/ \E reply \in Replies :
           round_no < RoundCap /\ reply = LowestLegal /\ StartRound(reply)
    \/ \E b \in {[p \in alive |-> "JA"]} : Vote(b)
    \/ \E pick \in Card : pick = FirstCard /\ PresidentDiscard("Liberal", pick)
    \/ \E v \in VetoReplies, a \in AcceptReplies : Veto(v, a)
    \/ \E pick \in Card : pick = FirstCard /\ ChancellorDiscard("Liberal", pick)
    \/ \E reply \in Replies : Investigate(reply)
    \/ \E reply \in Replies : SpecialElection(reply)
    \/ \E reply \in Replies, pick \in Seats : Execution(reply, pick)

SpecPowers == InitPowers /\ [][NextPowers]_vars

\* The seven-player games of SpecPowers with governments that are voted in
\* or voted down by all.
NextElections ==
    \/ NextPowers
    \/ GovernmentFailed
    \/ \E out \in [1..1 -> Card] : TopDeck(out)
    \/ \E b \in {[p \in alive |-> "NEIN"]} : Vote(b)

SpecElections == InitPowers /\ [][NextElections]_vars

\* The games of SpecElections at a table of five, seven or nine players,
\* one table for each track of executive powers.
TrackRoles ==
    GameRoles \cup PowerRoles
    \cup {<<"Liberal", "Fascist", "Liberal", "Hitler", "Liberal", "Fascist", "Liberal",
            "Fascist", "Liberal">>}
InitTracks == \E r \in TrackRoles : Started(r)
NextTracks ==
    \/ NextElections
    \/ \E top3 \in Hands : PolicyPeek(top3)

SpecTracks == InitTracks /\ [][NextTracks]_vars

\* Games of at most LongCap rounds in which every government is voted in or
\* voted down by all, presidents name the lowest legal seat and execute any
\* other living player, and governments discard a Liberal policy when they
\* hold one: long enough for the deck to run out.
LongCap == 12
NextLong ==
    \/ Internal
    \/ Draws
    \/ \E reply \in Replies :
           round_no < LongCap /\ reply = LowestLegal /\ StartRound(reply)
    \/ \E b \in {[p \in alive |-> "JA"], [p \in alive |-> "NEIN"]} : Vote(b)
    \/ \E pick \in Card : pick = FirstCard /\ PresidentDiscard("Liberal", pick)
    \/ \E v \in VetoReplies, a \in AcceptReplies : Veto(v, a)
    \/ \E pick \in Card : pick = FirstCard /\ ChancellorDiscard("Liberal", pick)
    \/ \E pick \in Seats : Execution(pick, pick)

SpecLong == Init /\ [][NextLong]_vars

\* The games of SpecLong in which no president accepts a veto.
NextNoVeto ==
    \/ Internal
    \/ Draws
    \/ \E reply \in Replies :
           round_no < LongCap /\ reply = LowestLegal /\ StartRound(reply)
    \/ \E b \in {[p \in alive |-> "JA"], [p \in alive |-> "NEIN"]} : Vote(b)
    \/ \E pick \in Card : pick = FirstCard /\ PresidentDiscard("Liberal", pick)
    \/ \E v \in VetoReplies : Veto(v, "REJECT")
    \/ \E pick \in Card : pick = FirstCard /\ ChancellorDiscard("Liberal", pick)
    \/ \E pick \in Seats : Execution(pick, pick)

SpecNoVeto == Init /\ [][NextNoVeto]_vars

\* The games of SpecLive with a recorder whose writes can fail.
NextRecorder ==
    \/ NextLive
    \/ \E write_ok \in {FALSE} : EndGame(write_ok)

SpecRecorder == Init /\ [][NextRecorder]_vars

\* Construction with every role list of SetupMax - 1 or SetupMax roles, or
\* without one, for as many players, followed by the first nomination.
SetupSizes == (SetupMax - 1)..SetupMax
RoleLists == UNION {[1..m -> Role] : m \in SetupSizes}
NextSetup ==
    \/ \E n \in SetupSizes, r \in RoleLists : Construct(n, Some(r), r)
    \/ \E n \in SetupSizes :
           \E r \in (IF AssignRaises(n, None) THEN {<<>>} ELSE AssignRoles(n, None)) :
               Construct(n, None, r)
    \/ \E reply \in Replies : round_no < 1 /\ reply = LowestLegal /\ StartRound(reply)

SpecSetup == InitNew /\ [][NextSetup]_vars

\* ============================================== Player (src/player.py)
\* Strings whose characters matter (player names, LLM replies, model names)
\* are sequences of one-character strings; "" is <<>>.
\* The characters str.strip() removes (those for which str.isspace() holds).
\* A TLA+ string holds space, tab, newline, carriage return and form feed;
\* the other white-space characters are written by their Python escapes.
Whitespace ==
    {" ", "\t", "\n", "\r", "\f",
     "\\v", "\\x1c", "\\x1d", "\\x1e", "\\x1f", "\\x85", "\\xa0",
     "\\u1680", "\\u2000", "\\u2001", "\\u2002", "\\u2003", "\\u2004",
     "\\u2005", "\\u2006", "\\u2007", "\\u2008", "\\u2009", "\\u200a",
     "\\u2028", "\\u2029", "\\u202f", "\\u205f", "\\u3000"}

\* str.strip()
Strip(str) ==
    LET keep == {i \in DOMAIN str : str[i] \notin Whitespace}
    IN  IF keep = {} THEN <<>>
        ELSE SubSeq(str, CHOOSE i \in keep : \A j \in keep : i <= j,
                         CHOOSE i \in keep : \A j \in keep : i >= j)

\* The names of the Mafia players and the lists passed as alive_players.
MaxAlive == 3
NameLetters == <<"a", "b", "c", "d", "e">>
PlayerNames == {<<NameLetters[i]>> : i \in 1..MaxAlive}
AliveLists ==
    {l \in UNION {[1..m -> PlayerNames] : m \in 0..MaxAlive} :
        \A i, j \in DOMAIN l : i # j => l[i] # l[j]}

\* What self.llm_client.chat returns as content.
Contents ==
    {<<>>, <<"a">>, <<"b">>, <<"c">>, <<"z">>, <<" ", "a">>, <<"b", "\n">>,
     <<" ", "c", " ">>, <<"a", "b">>, <<"a", " ", "b">>, <<" ">>,
     <<"\t", "b">>, <<"a", "\r", "\n">>, <<"\f">>}

\* choices = [name for name in alive_players if name != self.name]
Choices(name, alive_players) == SelectSeq(alive_players, LAMBDA x : x # name)

\* The candidates of a night action or vote: the doctor may save anyone
\* alive, the others choose among the other players.
Candidates(method, name, alive_players) ==
    IF method = "choose_doctor_save" THEN alive_players
    ELSE Choices(name, alive_players)

\* A choice that takes the stripped reply as it comes.
ChosenUnchecked(content, candidates, pick) == Some(Strip(content))

\* chosen = content.strip(); chosen if it is a candidate, else
\* random.choice(candidates)
Chosen(content, candidates, pick) ==
    IF Strip(content) \in Range(candidates) THEN Some(Strip(content)) ELSE Some(pick)

ChooseMethods ==
    {"choose_mafia_target", "choose_doctor_save", "choose_detective_investigation",
     "choose_vote"}

\* The Player objects: every player's private_notes, and the last call made
\* on a player with its return value.
NoCall == [method |-> "none"]
NewAgents ==
    [pc |-> "ready", private_notes |-> [n \in PlayerNames |-> <<>>], call |-> NoCall,
     result |-> None]

\* A call of choose_mafia_target, choose_doctor_save,
\* choose_detective_investigation or choose_vote on the player `name`, with
\* the reply the LLM gives when it is asked.
Called(method, name, alive_players, content) ==
    [method |-> method, name |-> name, alive_players |-> alive_players,
     content |-> content]

\* The body of the called method; pick is the outcome of random.choice.  The
\* LLM is not asked when there is no candidate.
Choose(pick) ==
    /\ agents.pc = "called"
    /\ LET c == agents.call
           candidates == Candidates(c.method, c.name, c.alive_players)
       IN  IF candidates = <<>>
           THEN agents' = [agents EXCEPT !.pc = "returned", !.result = None]
           ELSE /\ pick \in Range(candidates)
                /\ agents' = [agents EXCEPT !.pc = "returned",
                                            !.result = Chosen(c.content, candidates, pick)]
    /\ UNCHANGED <<pc, roles, knowledge, alive, deck, discard, hand,
                   liberal_policies,
                   fascist_policies, election_tracker, winner, veto_unlocked,
                   special_next_president_name, special_return_president_name,
                   special_in_effect, president_index, last_elected_president,
                   last_elected_chancellor, round_no, president, nominee, votes,
                   passed, record, runner, client>>

\* The Player objects are constructed and no method has been called.
InitAgents ==
    /\ Unconstructed
    /\ runner = NoRunner
    /\ client = NoClient
    /\ agents = NewAgents

\* Every target choice of every player, on every list of alive players and
\* with every reply of the LLM.
InitTargets ==
    /\ Unconstructed
    /\ runner = NoRunner
    /\ client = NoClient
    /\ \E method \in ChooseMethods, name \in PlayerNames, alive_players \in AliveLists,
          content \in Contents :
           agents = [NewAgents EXCEPT !.pc = "called",
                                      !.call = Called(method, name, alive_players, content)]
NextTargets == \E pick \in PlayerNames : Choose(pick)

SpecTargets == InitTargets /\ [][NextTargets]_vars

\* ------------------------------------------------- the private notes
\* A note is the sequence of the pieces of its text; "" is <<>>.
MaxNotes == 6
PlainNotes == {<<>>, <<"I am the Doctor.">>}
NoteOwners == {<<"a">>, <<"b">>}
LastK == 5

\* verdict = "MAFIA" if is_mafia else "NOT Mafia"
Verdict(is_mafia) == IF is_mafia THEN "MAFIA" ELSE "NOT Mafia"

\* f"Night investigation: {target_name} is {verdict}."
DetectiveNote(target_name, is_mafia) ==
    <<"Night investigation: ">> \o target_name \o <<" is ", Verdict(is_mafia), ".">>

\* An add_private_note that also stores an empty note.
AddNoteAlways(private_notes, note) == Append(private_notes, note)

\* if note: self.private_notes.append(note)
AddNote(private_notes, note) ==
    IF note # <<>> THEN Append(private_notes, note) ELSE private_notes

\* self.private_notes[-last_k:]: the slice starts last_k from the end when
\* last_k is positive, at the front when it is 0 (-0 is 0), and at index
\* -last_k when it is negative; a start outside the list is clipped.
Recent(private_notes, last_k) ==
    LET n == Len(private_notes)
        start == IF last_k > 0
                 THEN (IF n - last_k < 0 THEN 0 ELSE n - last_k)
                 ELSE (IF 0 - last_k > n THEN n ELSE 0 - last_k)
    IN  SubSeq(private_notes, start + 1, n)

\* sep.join(strs)
RECURSIVE Join(_, _)
Join(sep, strs) ==
    IF strs = <<>> THEN <<>>
    ELSE IF Len(strs) = 1 THEN strs[1]
    ELSE strs[1] \o sep \o Join(sep, Tail(strs))

ContextHeader == "PRIVATE INFO (do not reveal directly unless asked):\n- "
ContextSep == "\n- "

\* get_private_context(last_k)
PrivateContext(private_notes, last_k) ==
    IF private_notes = <<>> THEN <<>>
    ELSE <<ContextHeader>> \o Join(<<ContextSep>>, Recent(private_notes, last_k))

NotesFrame ==
    UNCHANGED <<pc, roles, knowledge, alive, deck, discard, hand,
                   liberal_policies,
                fascist_policies, election_tracker, winner, veto_unlocked,
                special_next_president_name, special_return_president_name,
                special_in_effect, president_index, last_elected_president,
                last_elected_chancellor, round_no, president, nominee, votes,
                passed, record, runner, client>>

\* add_private_note(note) on the player `name`
AddPrivateNote(name, note) ==
    /\ agents.pc = "ready"
    /\ agents' = [agents EXCEPT
                     !.private_notes[name] = AddNote(@, note),
                     !.call = [method |-> "add_private_note", name |-> name,
                               note |-> note],
                     !.result = None]
    /\ NotesFrame

\* inform_detective_result(target_name, is_mafia) on the player `name`
InformDetectiveResult(name, target_name, is_mafia) ==
    /\ agents.pc = "ready"
    /\ agents' = [agents EXCEPT
                     !.private_notes[name] = AddNote(@, DetectiveNote(target_name, is_mafia)),
                     !.call = [method |-> "inform_detective_result", name |-> name,
                               note |-> DetectiveNote(target_name, is_mafia)],
                     !.result = None]
    /\ NotesFrame

\* get_private_context() on the player `name`, with the default last_k
GetPrivateContext(name) ==
    /\ agents.pc = "ready"
    /\ agents' = [agents EXCEPT
                     !.call = [method |-> "get_private_context", name |-> name,
                               note |-> <<>>],
                     !.result = Some(PrivateContext(agents.private_notes[name], LastK))]
    /\ NotesFrame

\* The notes of all players together.
RECURSIVE NotesHeld(_)
NotesHeld(names) ==
    IF names = {} THEN 0
    ELSE LET n == CHOOSE x \in names : TRUE
         IN  Len(agents.private_notes[n]) + NotesHeld(names \ {n})

\* Notes given to two players, empty ones included, and their contexts read,
\* up to MaxNotes notes in all.
NextNotes ==
    \/ \E name \in NoteOwners, note \in PlainNotes :
           NotesHeld(PlayerNames) < MaxNotes /\ AddPrivateNote(name, note)
    \/ \E name \in NoteOwners, is_mafia \in BOOLEAN :
           /\ NotesHeld(PlayerNames) < MaxNotes
           /\ InformDetectiveResult(name, <<"c">>, is_mafia)
    \/ \E name \in NoteOwners : GetPrivateContext(name)

SpecNotes == InitAgents /\ [][NextNotes]_vars

\* ========================= MultiGameRunner (src/multi_game_runner.py)
\* The most rounds a game of SpecRunner lasts.
MaxGameRounds == 2
\* Game(roster).start_game() returns, and game.round_count is then the
\* number of rounds the game took.
GameRounds == 1..MaxGameRounds
\* The threshold_rounds and min_appearances the runners are constructed with.
ThresholdArgs == {-1, 1, 2}
MinAppearancesArgs == {0, 1, 2}
\* The runner's counters are exact below RunnerCap and stay there once they
\* reach it.
RunnerCap == 4

\* x += k on a counter of the runner
RunnerCount(x, k) == Min(x + k, RunnerCap)

RosterSize == 4

Cfg(name, model) == [name |-> name, model |-> model]

\* The lists passed as player_configs: a single player, a repeated name,
\* two and four players, and five players the last of whom runs the model
\* of another.
ConfigLists ==
    {<<Cfg("Sarah", "llama3.1:8b")>>,
     <<Cfg("Sarah", "llama3.1:8b"), Cfg("Sarah", "qwen2.5:7b")>>,
     <<Cfg("Sarah", "llama3.1:8b"), Cfg("Derek", "deepseek-r1:7b")>>,
     <<Cfg("Sarah", "llama3.1:8b"), Cfg("Derek", "deepseek-r1:7b"),
       Cfg("Emma", "dolphin3:latest"), Cfg("Talia", "qwen2.5:7b")>>,
     <<Cfg("Sarah", "llama3.1:8b"), Cfg("Derek", "deepseek-r1:7b"),
       Cfg("Emma", "dolphin3:latest"), Cfg("Talia", "qwen2.5:7b"),
       Cfg("Anika", "llama3.1:8b")>>}

Names(configs) == {configs[i].name : i \in DOMAIN configs}
Models(configs) == {configs[i].model : i \in DOMAIN configs}

\* MultiGameRunner.__init__ raises ValueError: fewer than 2 configs, a name
\* that occurs twice, or a negative threshold_rounds, which
\* deque(maxlen=threshold_rounds) refuses.
RunnerRaises(player_configs, threshold_rounds) ==
    \/ Len(player_configs) < 2
    \/ Cardinality(Names(player_configs)) # Len(player_configs)
    \/ threshold_rounds < 0

\* self.min_appearances = max(1, min_appearances)
MinAppearances(min_appearances) == IF min_appearances > 1 THEN min_appearances ELSE 1

\* The runner after __init__.
NewRunner(player_configs, threshold_rounds, min_appearances) ==
    [pc |-> "running",
     player_configs |-> player_configs,
     threshold_rounds |-> threshold_rounds,
     min_appearances |-> MinAppearances(min_appearances),
     appearances |-> [n \in Names(player_configs) |-> 0],
     model_usage |-> [m \in Models(player_configs) |-> 0],
     last_model_usage |-> [m \in Models(player_configs) |-> 0],
     round_count |-> 0,
     game_num |-> 0,
     priority_models |-> {},
     roster |-> {}]

\* _all_reached_threshold
AllReachedThreshold(r) ==
    \A n \in DOMAIN r.appearances : r.appearances[n] >= r.min_appearances

\* _get_priority_models: the models not used in the last threshold_rounds
\* rounds
PriorityModels(r) ==
    {m \in Models(r.player_configs) :
        r.last_model_usage[m] < r.round_count - r.threshold_rounds}

\* _should_force_model_usage
ShouldForceModelUsage(r) ==
    /\ ~(r.round_count < r.threshold_rounds)
    /\ PriorityModels(r) # {}

\* The rearrangements of 1..n, for the lists the runner shuffles.
Orderings ==
    [n \in 0..5 |->
        {p \in [1..n -> 1..n] : \A i, j \in 1..n : i # j => p[i] # p[j]}]

\* random.shuffle(part): the orders it can leave
ShuffledPart(part) ==
    {[i \in 1..Len(part) |-> part[p[i]]] : p \in Orderings[Len(part)]}

\* _adjust_player_configs_for_threshold: the lists it can return
AdjustedConfigs(r) ==
    IF ~ShouldForceModelUsage(r) THEN {r.player_configs}
    ELSE LET priority(c) == c.model \in PriorityModels(r)
             other(c) == c.model \notin PriorityModels(r)
         IN  {first \o rest :
                 first \in ShuffledPart(SelectSeq(r.player_configs, priority)),
                 rest \in ShuffledPart(SelectSeq(r.player_configs, other))}

\* _sample_roster_from_configs: random.sample(configs, 4) of more than four
\* configs, else all of them; the roster by its members.
SampleRoster(configs) ==
    IF Len(configs) > RosterSize
    THEN {ros \in SUBSET Range(configs) : Cardinality(ros) = RosterSize}
    ELSE {Range(configs)}

\* An update that counts an appearance for every configured player.
UpdateCountsAll(appearances, roster) ==
    [n \in DOMAIN appearances |-> RunnerCount(appearances[n], 1)]

\* roster = self._sample_roster_from_configs(adjusted_configs): the rosters
\* the next game can get.
Rosters(r) ==
    IF r.pc = "running"
    THEN UNION {SampleRoster(adjusted_configs) :
                    adjusted_configs \in AdjustedConfigs(r)}
    ELSE {}

\* _update_counts
UpdateCounts(appearances, roster) ==
    [n \in DOMAIN appearances |->
        IF \E c \in roster : c.name = n
        THEN RunnerCount(appearances[n], 1)
        ELSE appearances[n]]

RunnerFrame ==
    UNCHANGED <<pc, roles, knowledge, alive, deck, discard, hand,
                   liberal_policies,
                fascist_policies, election_tracker, winner, veto_unlocked,
                special_next_president_name, special_return_president_name,
                special_in_effect, president_index, last_elected_president,
                last_elected_chancellor, round_no, president, nominee, votes,
                passed, record, agents, client>>

\* MultiGameRunner(player_configs, threshold_rounds, min_appearances)
\* followed by the call of run_games.
ConstructRunner(player_configs, threshold_rounds, min_appearances) ==
    /\ runner.pc = "absent"
    /\ runner' = IF RunnerRaises(player_configs, threshold_rounds)
                 THEN [pc |-> "error"]
                 ELSE NewRunner(player_configs, threshold_rounds, min_appearances)
    /\ RunnerFrame

\* One pass of the while loop of run_games: the roster is sampled from the
\* adjusted configs, the game is played (game_round_count rounds) and the
\* counts are updated.
PlayGame(roster, game_round_count) ==
    /\ runner.pc = "running"
    /\ ~AllReachedThreshold(runner)
    /\ roster \in Rosters(runner)
    /\ LET used_models == {c.model : c \in roster}
           uses == [m \in used_models |-> Cardinality({c \in roster : c.model = m})]
           rounds == RunnerCount(runner.round_count, game_round_count)
       IN  runner' = [runner EXCEPT
               !.game_num = RunnerCount(@, 1),
               !.priority_models =
                   IF ShouldForceModelUsage(runner) THEN PriorityModels(runner) ELSE {},
               !.roster = roster,
               !.appearances = UpdateCounts(@, roster),
               !.round_count = rounds,
               !.model_usage =
                   [m \in DOMAIN @ |->
                       IF m \in used_models THEN RunnerCount(@[m], uses[m]) ELSE @[m]],
               !.last_model_usage =
                   [m \in DOMAIN @ |-> IF m \in used_models THEN rounds ELSE @[m]]]
    /\ RunnerFrame

\* The while loop ends: every player has appeared often enough.
FinishRun ==
    /\ runner.pc = "running"
    /\ AllReachedThreshold(runner)
    /\ runner' = [runner EXCEPT !.pc = "done"]
    /\ RunnerFrame

InitRunner ==
    /\ Unconstructed
    /\ runner = NoRunner
    /\ agents = NoAgents
    /\ client = NoClient

NextRunner ==
    \/ \E player_configs \in ConfigLists, threshold_rounds \in ThresholdArgs,
          min_appearances \in MinAppearancesArgs :
           ConstructRunner(player_configs, threshold_rounds, min_appearances)
    \/ \E roster \in Rosters(runner), game_round_count \in GameRounds :
           PlayGame(roster, game_round_count)
    \/ FinishRun

\* A game with a player on the roster who has not yet appeared often enough.
PlayNeeded ==
    \E roster \in Rosters(runner), game_round_count \in GameRounds :
        /\ \E c \in roster : runner.appearances[c.name] < runner.min_appearances
        /\ PlayGame(roster, game_round_count)

\* random.sample is fair: of the rosters that can be drawn again and again,
\* one with a player who is still needed is drawn.
SpecRunner ==
    /\ InitRunner
    /\ [][NextRunner]_vars
    /\ WF_vars(NextRunner)
    /\ WF_vars(PlayNeeded)

\* ======================== MultiLLMClient (src/multi_llm_client.py)
\* Model names are sequences of characters.
\* self.openai_models
OpenAIModels ==
    {<<"g", "p", "t", "-", "4", "o", "-", "m", "i", "n", "i">>,
     <<"g", "p", "t", "-", "4", "o">>,
     <<"g", "p", "t", "-", "4", "-", "t", "u", "r", "b", "o">>,
     <<"g", "p", "t", "-", "4">>,
     <<"g", "p", "t", "-", "3", ".", "5", "-", "t", "u", "r", "b", "o">>}

\* The model names that chat is called with.
ModelNames ==
    {<<"g", "p", "t", "-", "4", "o">>,
     <<"G", "P", "T", "-", "4", "o">>,
     <<"G", "p", "t", "-", "4", "O", "-", "M", "i", "n", "i">>,
     <<"G", "P", "T", "-", "4", "-", "T", "U", "R", "B", "O">>,
     <<"g", "p", "t", "-", "4">>,
     <<"g", "p", "t", "-", "4", "x">>,
     <<"g", "p", "t", "-", "5">>,
     <<"l", "l", "a", "m", "a", "3", ".", "1", ":", "8", "b">>,
     <<"n", "o", "n", "-", "e", "x", "i", "s", "t", "e", "n", "t", "-", "m", "o", "d", "e", "l">>,
     <<>>}

\* str.lower() of one character: every capital letter of the alphabet the
\* names are written in goes to its small letter, any other character stays.
LowerChar(c) ==
    LET capitals ==
            <<"A", "B", "C", "D", "E", "F", "G", "H", "I", "J", "K", "L", "M",
              "N", "O", "P", "Q", "R", "S", "T", "U", "V", "W", "X", "Y", "Z">>
        smalls ==
            <<"a", "b", "c", "d", "e", "f", "g", "h", "i", "j", "k", "l", "m",
              "n", "o", "p", "q", "r", "s", "t", "u", "v", "w", "x", "y", "z">>
    IN  IF \E i \in DOMAIN capitals : capitals[i] = c
        THEN smalls[CHOOSE i \in DOMAIN capitals : capitals[i] = c]
        ELSE c
Lower(str) == [i \in DOMAIN str |-> LowerChar(str[i])]

\* _is_openai_model
IsOpenAIModel(model_name) == Lower(model_name) \in {Lower(m) : m \in OpenAIModels}

\* A text, or None.
Texts == {Some(""), Some("Hello")}
OptTexts == Texts \cup {None}
EmptyPair == <<Some(""), Some("")>>

\* What self.openai_client.chat.completions.create does: it raises (an API
\* error, a timeout), or returns a response without choices, or one whose
\* first message has a content and, possibly, a reasoning_content.
NoAttr == [attr |-> "missing"]
Attr(v) == [attr |-> "set", value |-> v]
OpenAIOutcomes ==
    {[kind |-> "raises"], [kind |-> "no_choices"]}
    \cup {[kind |-> "message", content |-> c, reasoning_content |-> r] :
            c \in OptTexts, r \in {NoAttr} \cup {Attr(v) : v \in OptTexts}}

\* What self.ollama_client.chat does: it raises, or returns (late: after
\* more than self.timeout seconds) an object with message.content, an
\* object with content, a dict with a message dict (with or without a
\* content), a dict with content, another dict, or something else that is
\* truthy or not.
OllamaResponses ==
    {[shape |-> sh, content |-> c] :
        sh \in {"message_attr", "content_attr", "message_key", "content_key"},
        c \in OptTexts}
    \cup {[shape |-> "message_key_only"], [shape |-> "dict"], [shape |-> "truthy"],
          [shape |-> "falsy"]}
OllamaOutcomes ==
    {[kind |-> "raises"]}
    \cup {[kind |-> "response", late |-> l, response |-> r] :
            l \in BOOLEAN, r \in OllamaResponses}

\* str(response) of a response that is not empty
Repr == Some("{...}")

\* _chat_openai: its return value
ChatOpenAI(openai_client, outcome) ==
    IF ~openai_client THEN EmptyPair
    ELSE IF outcome.kind = "raises" THEN EmptyPair
    ELSE IF outcome.kind = "no_choices" THEN EmptyPair
    ELSE <<IF outcome.content \in {None, Some("")} THEN Some("") ELSE outcome.content,
           IF outcome.reasoning_content = NoAttr THEN Some("")
           ELSE outcome.reasoning_content.value>>

\* The content that _chat_ollama takes out of a response.
OllamaContent(response) ==
    CASE response.shape \in {"message_attr", "content_attr", "message_key",
                             "content_key"} ->
             response.content
      [] response.shape = "message_key_only" -> Some("")
      [] response.shape = "dict" -> Repr
      [] response.shape = "truthy" -> Repr
      [] response.shape = "falsy" -> Some("")

\* _chat_ollama: its return value
ChatOllama(ollama_client, outcome) ==
    IF ~ollama_client THEN EmptyPair
    ELSE IF outcome.kind = "raises" THEN EmptyPair
    ELSE IF outcome.late THEN EmptyPair
    ELSE <<OllamaContent(outcome.response), Some("")>>

\* chat(messages, model) has been called on a client whose backends are
\* there or not.
NewChat(model, openai_client, ollama_client) ==
    [pc |-> "called", model |-> model, openai_client |-> openai_client,
     ollama_client |-> ollama_client]

\* The body of chat, with what the backend it asks does.
Chat(outcome) ==
    /\ client.pc = "called"
    /\ IF IsOpenAIModel(client.model)
       THEN /\ outcome \in OpenAIOutcomes
            /\ client' = [pc |-> "returned", model |-> client.model,
                          openai_client |-> client.openai_client,
                          ollama_client |-> client.ollama_client,
                          routed |-> "openai", outcome |-> outcome,
                          result |-> ChatOpenAI(client.openai_client, outcome)]
       ELSE /\ outcome \in OllamaOutcomes
            /\ client' = [pc |-> "returned", model |-> client.model,
                          openai_client |-> client.openai_client,
                          ollama_client |-> client.ollama_client,
                          routed |-> "ollama", outcome |-> outcome,
                          result |-> ChatOllama(client.ollama_client, outcome)]
    /\ UNCHANGED <<pc, roles, knowledge, alive, deck, discard, hand,
                   liberal_policies,
                   fascist_policies, election_tracker, winner, veto_unlocked,
                   special_next_president_name, special_return_president_name,
                   special_in_effect, president_index, last_elected_president,
                   last_elected_chancellor, round_no, president, nominee, votes,
                   passed, record, runner, agents>>

\* Every call of chat: every model name, with and without each backend.
InitChat ==
    /\ Unconstructed
    /\ runner = NoRunner
    /\ agents = NoAgents
    /\ \E model \in ModelNames, openai_client \in BOOLEAN, ollama_client \in BOOLEAN :
           client = NewChat(model, openai_client, ollama_client)

NextChat == \E outcome \in OpenAIOutcomes \cup OllamaOutcomes : Chat(outcome)

SpecChat == InitChat /\ [][NextChat]_vars

\* ============================================================ properties
\* What is out of the game: in the deck, in the discard pile, in the hand
\* of the legislative session.
CardsOut(c) == DeckCount(deck, c) + discard[IF c = "Liberal" THEN "L" ELSE "F"]
               + CountIn(hand, c)
PoliciesEnacted == liberal_policies + fascist_policies
Running == {"loop", "vote", "government", "top_deck", "session", "pres_discard",
            "veto", "chan_discard", "power"}
\* The next living player after seat p in seating order (the order of
\* self.players, going round).
SeatedAfter(al, p) ==
    LET n == Cardinality(DOMAIN roles)
        seat(k) == ((p - 1 + k) % n) + 1
        k == CHOOSE k \in 1..n : seat(k) \in al /\ \A j \in 1..(k - 1) : seat(j) \notin al
    IN  seat(k)

\* C1: a chancellor vote passes exactly when the JA ballots are strictly more
\* than half of the living players, 2 * JA > N; a tie fails and every ballot
\* other than JA counts against; with 4 alive 2 JA fail and 3 pass, with 5
\* alive 2 JA fail and 3 pass.
C1_StrictMajority ==
    pc = "government" =>
        LET N == Cardinality(alive)
            JA == Cardinality({p \in alive : votes[p] = "JA"})
        IN  /\ DOMAIN votes = alive
            /\ passed <=> (2 * JA > N)
            /\ (N \in {4, 5} /\ JA = 2) => ~passed
            /\ (N \in {4, 5} /\ JA = 3) => passed

\* A tie among four living players, one of them abstaining, has failed.
C1_TieFails ==
    /\ pc = "government"
    /\ Cardinality(alive) = 4
    /\ Cardinality({p \in alive : votes[p] = "JA"}) = 2
    /\ \E p \in alive : votes[p] = "ABSTAIN"
    /\ ~passed

\* C2: when a vote passes and the elected chancellor is Hitler with at least
\* three Fascist policies enacted, the winner is set to Fascists in that
\* round, no policy is drawn, discarded or enacted, and the game ends without
\* another round or executive power; with fewer than three Fascist policies
\* electing Hitler sets no winner.
C2_HitlerChancellor ==
    /\ [][(pc = "government" /\ passed /\ nominee \in alive /\ roles[nominee] = "Hitler")
            => IF fascist_policies >= 3
               THEN /\ winner' = "Fascists"
                    /\ pc' = "loop"
                    /\ UNCHANGED <<deck, discard, hand, liberal_policies,
                                   fascist_policies, election_tracker, alive,
                                   round_no>>
               ELSE winner' = NoWinner /\ pc' = "session"]_vars
    /\ [][winner # NoWinner
            => /\ pc' = "done"
               /\ UNCHANGED <<deck, discard, hand, liberal_policies,
                              fascist_policies, election_tracker, alive,
                              round_no, winner>>]_vars

\* The game is over for the Fascists although their track is not full.
C2_HitlerWon ==
    /\ pc = "done"
    /\ winner = "Fascists"
    /\ fascist_policies >= 3
    /\ fascist_policies < FascistGoal

\* C3: every run of start_game leaves the round loop: it ends with a winner,
\* or (in the model) by an exception or in a draw that never returns; there
\* is no infinite run of rounds, in particular none of accepted vetoes.
C3_RoundLoopEnds == <>(pc \notin Running)

\* C4: the number of rounds played stays below the configured maximum,
\* whichever maximum below CounterCap is configured.
C4_RoundBudget == round_no < CounterCap

\* C5: once a winner is set it never changes, and the check_win at the head
\* of the round loop then returns True: the loop ends instead of playing a
\* round.
C5_WinnerFinal ==
    [][winner # NoWinner =>
          /\ winner' = winner
          /\ CheckWin(winner', liberal_policies', fascist_policies')
          /\ pc = "loop" => pc' = "done"]_vars

\* Hitler was executed: the Liberals have won with fewer than five policies.
C5_WonByExecution ==
    /\ pc = "done"
    /\ winner = "Liberals"
    /\ liberal_policies < LiberalGoal

\* C6: the election tracker goes up by exactly one on every failed vote, is
\* set to zero by every enactment (of a government or from the top of the
\* deck), and never changes by any other amount.
C6_TrackerSteps ==
    [][/\ (pc = "government" /\ ~passed)
            => election_tracker' = election_tracker + 1
       /\ PoliciesEnacted' # PoliciesEnacted
            => /\ PoliciesEnacted' = PoliciesEnacted + 1
               /\ election_tracker' = 0
       /\ election_tracker' \in {election_tracker, election_tracker + 1, 0}]_vars

\* A third failed vote in a row, after an enactment had reset the tracker.
C6_ThirdFailure ==
    /\ pc = "top_deck"
    /\ election_tracker = TrackerMax
    /\ PoliciesEnacted > 0

\* C7: the election tracker never exceeds three and is never three or more
\* when a round starts: whenever it reaches three, by a failed vote or by an
\* accepted veto, the top policy is enacted in that round.
C7_TrackerBelowThree ==
    /\ election_tracker <= TrackerMax
    /\ pc = "loop" => election_tracker < TrackerMax

\* C8: no policy card is added or lost: for each kind, the number of cards
\* in the deck, the discard pile and the dealt hand together is the same
\* after every draw, discard, veto, peek and reshuffle, and an enactment (by
\* a government or from the top of the deck) takes exactly the one enacted
\* card out.
C8_CardsConserved ==
    [][IF pc \in {"top_deck", "chan_discard"} /\ pc' \notin {"hang", "crash"}
       THEN /\ \A c \in Card : CardsOut(c)' \in {CardsOut(c) - 1, CardsOut(c)}
            /\ CardsOut("Liberal")' + CardsOut("Fascist")'
                   = CardsOut("Liberal") + CardsOut("Fascist") - 1
       ELSE \A c \in Card : CardsOut(c)' = CardsOut(c)]_vars

\* A government holds three policies drawn after a reshuffle: an earlier
\* government had discarded, and the discard pile is empty again.
C8_DealtAfterReshuffle ==
    /\ pc = "pres_discard"
    /\ last_elected_president # NoName
    /\ discard = EmptyPile
    /\ Len(hand) = 3

\* C9: at every draw_policies(k) and policy peek the deck and the discard
\* pile together hold at least k cards, so the reshuffle loop runs at most
\* once and the draw returns exactly k cards.
C9_EnoughCards ==
    /\ pc # "hang"
    /\ pc = "session" => DeckLen(deck) + PileLen(discard) >= 3
    /\ pc = "top_deck" => DeckLen(deck) + PileLen(discard) >= 1
    /\ (pc = "power" /\ ThePower = "policy_peek")
            => DeckLen(deck) + PileLen(discard) >= 3
    /\ pc = "pres_discard" => Len(hand) = 3

\* A legislative session begins with fewer than three cards in the deck.
C9_ShortDeck ==
    /\ pc = "session"
    /\ DeckLen(deck) < 3
    /\ PileLen(discard) > 0

\* C10: without a role list, assign_roles gives every player one role with
\* the counts of the setup table: 5: 3/1/1, 6: 4/1/1, 7: 4/2/1, 8: 5/2/1,
\* 9: 5/3/1, 10: 6/3/1 (Liberal/Fascist/Hitler), so exactly one Hitler.
C10_SetupCounts ==
    pc = "loop" =>
        LET n == Len(roles)
            counts == <<CountIn(roles, "Liberal"), CountIn(roles, "Fascist"),
                        CountIn(roles, "Hitler")>>
        IN  /\ n \in 5..10
            /\ DOMAIN roles = 1..n
            /\ counts[3] = 1
            /\ n = 5 => counts = <<3, 1, 1>>
            /\ n = 6 => counts = <<4, 1, 1>>
            /\ n = 7 => counts = <<4, 2, 1>>
            /\ n = 8 => counts = <<5, 2, 1>>
            /\ n = 9 => counts = <<5, 3, 1>>
            /\ n = 10 => counts = <<6, 3, 1>>

\* Ten players have their roles, the first of them Hitler.
C10_TenPlayers ==
    /\ pc = "loop"
    /\ Len(roles) = 10
    /\ roles[1] = "Hitler"

\* C11: setup validates the roster: no game whose player count is outside
\* 5..10, or whose Liberal/Fascist/Hitler counts differ from the setup table
\* for its player count, reaches its first round.
C11_RosterValidated ==
    round_no >= 1 =>
        /\ Len(roles) \in SupportedCounts
        /\ <<CountIn(roles, "Liberal"), CountIn(roles, "Fascist"),
             CountIn(roles, "Hitler")>> = SetupTable(Len(roles))

\* C12: the government that is voted on always has a chancellor who is
\* alive, is not the president and is not term-limited (an illegal nominee
\* of the president's agent is replaced by a legal one), and the lookup of
\* the elected chancellor raises no exception.
C12_LegalChancellor ==
    /\ pc \in {"vote", "government"} =>
            nominee \in (alive \ {president})
                \ Ineligible(alive, last_elected_president, last_elected_chancellor)
    /\ ~(pc = "crash" /\ NomineeMissing)

\* C13: an executive power is never applied to a dead or unknown player or
\* to the president (an illegal target of the president's agent is replaced
\* by a legal one), the president named by a special election is an alive
\* player, and no power raises an exception.
C13_LegalTargets ==
    [][pc = "power" =>
          /\ pc' # "crash"
          /\ special_next_president_name' \in alive' \cup {NoName}
          /\ (/\ record'.action # record.action
              /\ record'.action.action \in {"investigate", "special_election", "execution"})
                => record'.action.target \in alive \ {president}]_vars

\* C14: in a legislative session the president discards exactly one of the
\* three drawn cards and the chancellor gets the other two; the chancellor,
\* deciding after the president, discards exactly one of the two and the
\* remaining card is the one enacted; each discarded card is appended to the
\* discard pile.
C14_SessionDiscards ==
    [][/\ pc = "pres_discard" =>
            /\ Len(hand) = 3
            /\ \E i \in 1..3 :
                   /\ hand' = [j \in 1..2 |-> IF j < i THEN hand[j] ELSE hand[j + 1]]
                   /\ discard'.L = discard.L + (IF hand[i] = "Liberal" THEN 1 ELSE 0)
                   /\ discard'.F = discard.F + (IF hand[i] = "Fascist" THEN 1 ELSE 0)
            /\ pc' \in {"veto", "chan_discard"}
            /\ PoliciesEnacted' = PoliciesEnacted
       /\ pc' = "chan_discard" => pc \in {"pres_discard", "veto"}
       /\ pc = "chan_discard" =>
            /\ Len(hand) = 2
            /\ \E i \in 1..2 :
                   /\ discard'.L = discard.L + (IF hand[i] = "Liberal" THEN 1 ELSE 0)
                   /\ discard'.F = discard.F + (IF hand[i] = "Fascist" THEN 1 ELSE 0)
                   /\ liberal_policies' =
                          liberal_policies + (IF hand[3 - i] = "Liberal" THEN 1 ELSE 0)
                   /\ fascist_policies' =
                          fascist_policies + (IF hand[3 - i] = "Fascist" THEN 1 ELSE 0)
            /\ hand' = <<>>]_vars

\* The first government has enacted a Liberal policy: two cards are on the
\* discard pile.
C14_FirstEnactment ==
    /\ pc = "loop"
    /\ round_no = 1
    /\ liberal_policies = 1
    /\ PileLen(discard) = 2

\* C15: a veto phase exists only with at least 5 Fascist policies enacted.
\* When the chancellor asks for the veto and the president accepts, nothing
\* is enacted, both of the chancellor's cards go to the discard pile, the
\* tracker goes up by one and the round ends.  Otherwise (rejected, not
\* asked for, or not unlocked) the session goes on unchanged to the
\* chancellor's discard, which enacts one card and does not increment the
\* tracker.
C15_VetoEffect ==
    [][/\ pc' = "veto" => pc = "pres_discard" /\ fascist_policies >= 5
       /\ (pc = "pres_discard" /\ fascist_policies < 5) => pc' = "chan_discard"
       /\ pc = "veto" =>
            IF record'.action.action = "veto" /\ record'.action.result = "ACCEPT"
            THEN /\ liberal_policies' = liberal_policies
                 /\ fascist_policies' = fascist_policies
                 /\ Len(hand) = 2
                 /\ discard'.L = discard.L + CountIn(hand, "Liberal")
                 /\ discard'.F = discard.F + CountIn(hand, "Fascist")
                 /\ election_tracker' = election_tracker + 1
                 /\ pc' = "loop"
            ELSE /\ pc' = "chan_discard"
                 /\ UNCHANGED <<hand, discard, deck, liberal_policies,
                                fascist_policies, election_tracker>>
       /\ pc = "chan_discard" =>
            /\ PoliciesEnacted' = PoliciesEnacted + 1
            /\ election_tracker' # election_tracker + 1]_vars

\* A round has ended by an accepted veto.
C15_VetoAccepted ==
    /\ pc = "loop"
    /\ record.action.action = "veto"
    /\ record.action.result = "ACCEPT"
    /\ election_tracker >= 1

\* C16: dead players never act: while a round runs its president is alive;
\* the ballots are those of exactly the players alive in the round, one
\* ballot each, so the JA count is at most the number of alive players; no
\* ballot exists before the vote, and once the tally is made neither it nor
\* the ballots change before the round ends.
C16_OnlyTheLivingAct ==
    /\ [](/\ pc \in Running \ {"loop"} => president \in alive
          /\ pc = "vote" => record.ballots = NoBallots /\ votes = EmptyVotes
          /\ pc = "government" =>
                /\ DOMAIN votes = alive
                /\ DOMAIN record.ballots = alive
                /\ \A p \in alive : record.ballots[p] = 1
                /\ Cardinality({p \in DOMAIN votes : votes[p] = "JA"})
                       <= Cardinality(alive))
    /\ [][(pc \notin {"loop", "vote"} /\ pc' # "loop")
            => passed' = passed /\ record'.ballots = record.ballots]_vars

\* A vote is in after a player has died: the dead player has no ballot.
C16_VoteAfterDeath ==
    /\ pc = "government"
    /\ alive # DOMAIN roles
    /\ DOMAIN record.ballots = alive

\* C17: the step that executes Hitler sets the winner to Liberals and ends
\* the round; the next step leaves the round loop, with no further power,
\* nomination, vote or round; so no round is ever played with Hitler dead.
C17_HitlerExecuted ==
    /\ [][(\E p \in alive : p \notin alive' /\ roles[p] = "Hitler")
            => winner' = "Liberals" /\ pc' = "loop"]_vars
    /\ [][(\E p \in DOMAIN roles \ alive : roles[p] = "Hitler")
            => /\ pc = "loop" /\ pc' = "done"
               /\ winner' = "Liberals"
               /\ UNCHANGED <<round_no, record, alive, president, nominee, votes,
                              liberal_policies, fascist_policies, deck, discard>>]_vars
    /\ [](pc \in Running \ {"loop"} => \A p \in DOMAIN roles \ alive : roles[p] # "Hitler")

\* The game is over after the execution of Hitler.
C17_HitlerDead ==
    /\ pc = "done"
    /\ winner = "Liberals"
    /\ record.action.action = "execution"
    /\ roles[record.action.target] = "Hitler"
    /\ record.action.target \notin alive

\* C18: the party is a function of the role and the roles never change; an
\* investigation records the party of its target, Fascist for a Fascist and
\* for Hitler and Liberal otherwise, never the role, in an action marked
\* private to the investigating president.
C18_PartyOfRole ==
    /\ [][roles' = roles]_vars
    /\ [](record.action.action = "investigate" =>
            LET a == record.action
            IN  /\ a.result = (IF roles[a.target] \in {"Fascist", "Hitler"}
                               THEN "Fascist" ELSE "Liberal")
                /\ a.result # "Hitler"
                /\ a.private_to = a.president)
    /\ [][(record'.action # record.action /\ record'.action.action = "investigate")
            => record'.action.president = president]_vars

\* Hitler has been investigated and reported as a Fascist.
C18_HitlerInvestigated ==
    /\ record.action.action = "investigate"
    /\ roles[record.action.target] = "Hitler"
    /\ record.action.result = "Fascist"

\* C19: a failing write of the record does not abort the game: from the
\* head of the round loop the game goes where it goes when the write
\* succeeds, to its end with the winner or into the vote of the next round.
C19_WriteFailureHarmless ==
    [][pc = "loop" =>
          IF CheckWin(winner, liberal_policies, fascist_policies)
          THEN /\ pc' = "done"
               /\ winner' = WinnerAfterCheck(winner, liberal_policies, fascist_policies)
          ELSE pc' = "vote"]_vars

\* C20: the record's round number goes up by exactly one per round; in each
\* round exactly one start_government is followed by exactly one record_vote
\* per alive player and then by exactly one finalize_government, and once
\* the government is finalized its ballots are not written again.
C20_RecordOrdered ==
    /\ [](/\ record.round = round_no
          /\ pc = "vote" =>
                /\ record.government = 1
                /\ record.ballots = NoBallots
                /\ record.finalized = 0
          /\ pc = "government" =>
                /\ record.government = 1
                /\ record.ballots = [p \in alive |-> 1]
                /\ record.finalized = 0
          /\ (round_no >= 1 /\ pc \notin {"vote", "government"}) =>
                /\ record.government = 1
                /\ \A p \in DOMAIN record.ballots : record.ballots[p] = 1
                /\ record.finalized = 1)
    /\ [][\/ record'.round = record.round
          \/ record'.round = record.round + 1 /\ pc = "loop"]_vars
    /\ [][(record.finalized >= 1 /\ record'.round = record.round)
            => /\ record'.ballots = record.ballots
               /\ record'.finalized = record.finalized
               /\ record'.government = record.government]_vars

\* C21: choose_mafia_target, choose_detective_investigation and choose_vote
\* return None exactly when alive_players holds no name other than the
\* player's own, and otherwise a name of alive_players that is not the
\* player's own, whatever the LLM replies; choose_doctor_save returns None
\* exactly when alive_players is empty and otherwise a member of it.
C21_LegalTarget ==
    agents.pc = "returned" =>
        LET c == agents.call
            living == Range(c.alive_players)
        IN  IF c.method = "choose_doctor_save"
            THEN /\ agents.result = None <=> living = {}
                 /\ agents.result # None => TheValue(agents.result) \in living
            ELSE /\ agents.result = None <=> living \ {c.name} = {}
                 /\ agents.result # None =>
                       /\ TheValue(agents.result) \in living
                       /\ TheValue(agents.result) # c.name

\* The LLM replied with the voter's own name and the vote went to another
\* player.
C21_OwnNameReplaced ==
    /\ agents.pc = "returned"
    /\ agents.call.method = "choose_vote"
    /\ Strip(agents.call.content) = agents.call.name
    /\ agents.call.name \in Range(agents.call.alive_players)
    /\ agents.result # None
    /\ TheValue(agents.result) # agents.call.name

\* C22: the private notes are append-only and owned by one player:
\* add_private_note and inform_detective_result append one note to the
\* notes of the player they are called on and touch nobody else's, an empty
\* note changes nothing, no note is removed, moved or rewritten, and
\* get_private_context returns the last five notes of that player and
\* leaves all notes as they are.
C22_NotesAppendOnly ==
    /\ [][\A q \in PlayerNames :
            LET old == agents.private_notes[q]
                new == agents'.private_notes[q]
                c == agents'.call
            IN  /\ Len(new) >= Len(old)
                /\ SubSeq(new, 1, Len(old)) = old
                /\ new # old =>
                      /\ c.method \in {"add_private_note", "inform_detective_result"}
                      /\ c.name = q
                      /\ new = old \o <<c.note>>
                      /\ c.note # <<>>
                /\ (c.name = q /\ c.note # <<>>) => new # old]_vars
    /\ [](agents.call.method = "get_private_context" =>
            LET own == agents.private_notes[agents.call.name]
                n == Len(own)
                k == Min(n, 5)
                recent == [i \in 1..k |-> own[n - k + i]]
            IN  agents.result =
                    Some(IF n = 0 THEN <<>>
                         ELSE <<ContextHeader>> \o Join(<<ContextSep>>, recent)))

\* A player holds more than five notes, the last of them a detective's
\* result, and the player's context has been read.
C22_LongList ==
    /\ agents.call.method = "get_private_context"
    /\ LET own == agents.private_notes[agents.call.name]
       IN  /\ Len(own) > 5
           /\ own[Len(own)] = DetectiveNote(<<"c">>, TRUE)

\* C23: once the cumulative round count has reached threshold_rounds, every
\* model that has not played within the last threshold_rounds rounds is on
\* the roster of the next game.
C23_OverdueModelsPlay ==
    runner.pc \in {"running", "done"} =>
        \A m \in runner.priority_models : \E c \in runner.roster : c.model = m

\* C24: run_games starts games until every configured player has appeared
\* in at least min_appearances games and then stops: it terminates under
\* fair sampling, on exit min(appearances) >= min_appearances, every roster
\* holds min(4, number of configs) distinct players, each game adds one
\* appearance to each roster member and none to anyone else, and with at
\* most 4 configured players exactly min_appearances games are played.
C24_RunsUntilAllAppeared ==
    /\ [](runner.pc = "done" =>
            /\ \A n \in Names(runner.player_configs) :
                   runner.appearances[n] >= runner.min_appearances
            /\ Len(runner.player_configs) <= 4 =>
                   runner.game_num = runner.min_appearances)
    /\ [](runner.pc = "running" =>
            /\ runner.min_appearances >= 1
            /\ runner.game_num >= 1 =>
                  /\ runner.roster \subseteq Range(runner.player_configs)
                  /\ Cardinality(runner.roster) = Min(4, Len(runner.player_configs))
                  /\ Cardinality({c.name : c \in runner.roster})
                         = Cardinality(runner.roster))
    /\ [][(runner.pc = "running" /\ runner'.pc = "running") =>
            \A n \in Names(runner.player_configs) :
                runner.appearances[n] < RunnerCap =>
                    runner'.appearances[n] =
                        runner.appearances[n]
                            + (IF \E c \in runner'.roster : c.name = n THEN 1 ELSE 0)]_vars
    /\ [][runner'.pc = "done" =>
            \A n \in Names(runner.player_configs) :
                runner.appearances[n] >= runner.min_appearances]_vars
    /\ <>(runner.pc \in {"done", "error"})

\* Five configured players: the run has ended after more games than
\* min_appearances, and not everybody played in all of them.
C24_SampledRun ==
    /\ runner.pc = "done"
    /\ Len(runner.player_configs) = 5
    /\ runner.game_num > runner.min_appearances
    /\ \E n \in Names(runner.player_configs) : runner.appearances[n] < runner.game_num

\* The backend that chat asked gave nothing to return: its client is
\* missing, the call raised or came back after the timeout, or the response
\* holds no text.
ChatFailed ==
    IF client.routed = "openai"
    THEN \/ ~client.openai_client
         \/ client.outcome.kind \in {"raises", "no_choices"}
         \/ /\ client.outcome.kind = "message"
            /\ client.outcome.content \in {None, Some("")}
            /\ \/ client.outcome.reasoning_content = NoAttr
               \/ client.outcome.reasoning_content.value \in {None, Some("")}
    ELSE \/ ~client.ollama_client
         \/ client.outcome.kind = "raises"
         \/ /\ client.outcome.kind = "response"
            /\ \/ client.outcome.late
               \/ client.outcome.response.shape \in {"falsy", "message_key_only"}
               \/ /\ client.outcome.response.shape \in
                         {"message_attr", "content_attr", "message_key", "content_key"}
                  /\ client.outcome.response.content \in {None, Some("")}

\* C25: chat returns a (content, reasoning) pair for every model name and
\* every backend outcome; every failure (missing client, exception,
\* timeout, empty response) yields the pair of empty strings; a model name
\* goes to OpenAI exactly when it equals, case-insensitively, one of the
\* configured OpenAI model names, and to Ollama otherwise.
C25_ChatTotal ==
    client.pc = "returned" =>
        /\ Len(client.result) = 2
        /\ client.routed = "openai" <=>
               \E m \in OpenAIModels :
                   /\ Len(m) = Len(client.model)
                   /\ \A i \in DOMAIN m : LowerChar(m[i]) = LowerChar(client.model[i])
        /\ client.routed \in {"openai", "ollama"}
        /\ ChatFailed => client.result = EmptyPair

\* C26: after a special election the presidency returns to the player to
\* the left of the president who called it: the first regular round after
\* the special-election round has that player as president, whether the
\* special-election government passed, failed its vote or was vetoed (for a
\* special election whose target was another player).
C26_ReturnsToTheLeft ==
    (/\ pc = "vote"
     /\ ~special_in_effect
     /\ record.special_election.president # NoName
     /\ record.special_election.target \in Seats \ {record.special_election.president}
     /\ record.special_election.round = round_no - 2)
        => president = SeatedAfter(alive, record.special_election.president)

\* C27: outside special elections the presidency passes to the next living
\* player in seating order: a round that neither is a special-election round
\* nor follows one has as president the first living player after the
\* president of the round before, so that nobody presides twice running
\* (also after an accepted veto) and nobody is skipped (also when the
\* executed player sat before the president).
C27_NextAlivePresides ==
    [][(/\ pc = "loop"
        /\ pc' = "vote"
        /\ record.round >= 1
        /\ record.president \in Seats
        /\ ~special_in_effect'
        /\ record.special_election.round # record.round
        /\ record.special_election.round # record.round - 1)
           => president' = SeatedAfter(alive, record.president)]_vars

\* C28: at every nomination at least one player can be named chancellor:
\* the living players other than the president are not all term-limited,
\* also with three players alive after two executions.
C28_SomebodyEligible ==
    pc = "vote" =>
        (alive \ {president})
            \ Ineligible(alive, last_elected_president, last_elected_chancellor) # {}

\* C29: at the start of every round of a game that goes on, and while its
\* nominee is voted on, the term limits name the most recent
\* government that passed its vote (also when its session ended in an
\* accepted veto); governments voted down and top-decked policies leave
\* them as they were.
C29_TermLimitsNameLastElected ==
    (\/ pc = "vote"
     \/ pc = "loop" /\ ~CheckWin(winner, liberal_policies, fascist_policies)) =>
        /\ last_elected_president = record.elected.president
        /\ last_elected_chancellor = record.elected.chancellor

\* C30: at the start of every round president_index is a valid index into
\* the list of living players, after any sequence of failed votes,
\* enactments, vetoes, executions and special elections, so that
\* alive[president_index] never fails.
C30_PresidentIndexValid ==
    pc = "loop" => president_index \in 0..(Cardinality(alive) - 1)

\* A round starts after a special election and two executions, with the
\* index wrapped round the five players left.
C30_WrappedAfterExecutions ==
    /\ pc = "loop"
    /\ ~CheckWin(winner, liberal_policies, fascist_policies)
    /\ record.action.action = "execution"
    /\ record.special_election.round > 0
    /\ Cardinality(alive) = 5
    /\ president_index <= 1

\* C31: executions are bounded and never suicidal: an execution that is
\* carried out never has the president as its target, happens only with more
\* than two players alive and turns exactly one living player dead; nobody
\* returns to the living, at most two players are ever dead, and so at least
\* three players are alive in every state.
C31_ExecutionsBounded ==
    [][/\ alive' \subseteq alive
       /\ Cardinality(alive') >= Cardinality(DOMAIN roles) - 2
       /\ Cardinality(alive') >= 3
       /\ (/\ pc = "power"
           /\ pc' # "crash"
           /\ record'.action # record.action
           /\ record'.action.action = "execution")
             => /\ record'.action.target # president
                /\ Cardinality(alive) > 2
                /\ Cardinality(alive \ alive') = 1]_vars

\* C32: all players are alive while fewer than 4 Fascist policies are
\* enacted, so the executive power applied after a government enacts a
\* Fascist policy is the one of the track for the initial player count (5-6:
\* peek at 3; 7-8: investigate at 2, special election at 3; 9-10: investigate
\* at 1 and 2, special election at 3; execution at 4 and 5 for all), and one
\* enacted policy triggers at most one power.
C32_InitialTrack ==
    [][LET n == Cardinality(DOMAIN roles)
           fp == fascist_policies
           track == IF fp \in {4, 5} THEN "execution"
                    ELSE IF n <= 6 THEN (IF fp = 3 THEN "policy_peek" ELSE "none")
                    ELSE IF fp = 3 THEN "special_election"
                    ELSE IF fp = 2 \/ (fp = 1 /\ n >= 9) THEN "investigate"
                    ELSE "none"
       IN  /\ fp < 4 => alive = DOMAIN roles
           /\ pc = "power" =>
                /\ ThePower = track
                /\ pc' # "power"
                /\ record'.action # record.action => record'.action.action = track
                /\ fascist_policies' = fp]_vars

\* The president of a nine-player table has investigated a player after the
\* first Fascist policy.
C32_NineInvestigate ==
    /\ Cardinality(DOMAIN roles) = 9
    /\ fascist_policies = 1
    /\ record.action.action = "investigate"

\* C33: at most one policy is enacted per round (a step enacts at most one
\* policy, only the chancellor's enactment and the top-deck do, and both end
\* the round but for the power that follows), so liberal_policies <= 5,
\* fascist_policies <= 6 and the two policy wins are never true together;
\* when the game is over exactly one of these holds and matches the winner:
\* 5 Liberal policies or Hitler executed (Liberals), 6 Fascist policies or
\* Hitler elected chancellor with at least 3 Fascist policies (Fascists).
C33_OneWinCondition ==
    [][LET liberalTrack == liberal_policies' >= 5
           fascistTrack == fascist_policies' >= 6
           hitlerExecuted == \E p \in DOMAIN roles : roles[p] = "Hitler" /\ p \notin alive'
           hitlerElected ==
               /\ record'.elected.round = record'.round
               /\ record'.elected.chancellor \in DOMAIN roles
               /\ roles[record'.elected.chancellor] = "Hitler"
               /\ fascist_policies' >= 3
           holding == {c \in {"liberalTrack", "fascistTrack", "hitlerExecuted",
                              "hitlerElected"} :
                          \/ c = "liberalTrack" /\ liberalTrack
                          \/ c = "fascistTrack" /\ fascistTrack
                          \/ c = "hitlerExecuted" /\ hitlerExecuted
                          \/ c = "hitlerElected" /\ hitlerElected}
       IN  /\ PoliciesEnacted' \in {PoliciesEnacted, PoliciesEnacted + 1}
           /\ PoliciesEnacted' # PoliciesEnacted =>
                  pc \in {"chan_discard", "top_deck"} /\ pc' \in {"loop", "power"}
           /\ liberal_policies' <= 5
           /\ fascist_policies' <= 6
           /\ ~(liberalTrack /\ fascistTrack)
           /\ pc' = "done" =>
                  /\ Cardinality(holding) = 1
                  /\ winner' = (IF holding \subseteq {"liberalTrack", "hitlerExecuted"}
                                THEN "Liberals" ELSE "Fascists")]_vars

\* The game is over because Hitler was elected chancellor after the third
\* Fascist policy, with both tracks short of their goal.
C33_EndedByElection ==
    /\ pc = "done"
    /\ winner = "Fascists"
    /\ fascist_policies \in 3..5
    /\ liberal_policies \in 1..4
    /\ record.elected.round = record.round
    /\ roles[record.elected.chancellor] = "Hitler"

\* C34 as stated, without the reshuffle of an empty deck: a failed government kills nobody and leaves the term limits and the
\* discard pile as they were; while the tracker stays below 3 it also leaves
\* the deck and the policy tracks unchanged; when the tracker reaches 3
\* exactly one card leaves the deck and is enacted, and the round ends
\* without an executive power, also when the card is a Fascist policy.
C34_FailedGovernmentFrame ==
    [][((pc = "government" /\ ~passed) \/ pc = "top_deck") =>
          /\ alive' = alive
          /\ winner' = winner
          /\ last_elected_president' = last_elected_president
          /\ last_elected_chancellor' = last_elected_chancellor
          /\ discard' = discard
          /\ record'.action = record.action
          /\ pc' \in {"loop", "top_deck"}
          /\ pc = "government" =>
                /\ deck' = deck
                /\ PoliciesEnacted' = PoliciesEnacted
                /\ pc' = "top_deck" <=> election_tracker' >= 3
          /\ pc = "top_deck" =>
                /\ DeckLen(deck') = DeckLen(deck) - 1
                /\ PoliciesEnacted' = PoliciesEnacted + 1
                /\ pc' = "loop"]_vars

\* C34, amended: a failed government kills nobody and leaves the term
\* limits as they were; while the tracker stays below 3 it also leaves the
\* deck, the discard pile and the policy tracks unchanged; when the tracker
\* reaches 3, the discard pile is unchanged and exactly one card leaves the
\* deck if the deck holds a card, and if the deck is empty the discard pile
\* is shuffled into it first and is left empty; either way deck and discard
\* pile together lose exactly one card, which is enacted, and the round ends
\* without an executive power, also when the card is a Fascist policy.
C34_FailedGovernmentReshuffles ==
    [][((pc = "government" /\ ~passed) \/ pc = "top_deck") =>
          /\ alive' = alive
          /\ winner' = winner
          /\ last_elected_president' = last_elected_president
          /\ last_elected_chancellor' = last_elected_chancellor
          /\ record'.action = record.action
          /\ pc' \in {"loop", "top_deck"}
          /\ pc = "government" =>
                /\ deck' = deck
                /\ discard' = discard
                /\ PoliciesEnacted' = PoliciesEnacted
                /\ pc' = "top_deck" <=> election_tracker' >= 3
          /\ pc = "top_deck" =>
                /\ IF DeckLen(deck) >= 1
                   THEN discard' = discard /\ DeckLen(deck') = DeckLen(deck) - 1
                   ELSE discard' = EmptyPile /\ DeckLen(deck') = PileLen(discard) - 1
                /\ \A c \in Card :
                       LET k == IF c = "Liberal" THEN "L" ELSE "F"
                       IN  DeckCount(deck', c) + discard'[k]
                             + (IF c = "Liberal" THEN liberal_policies'
                                ELSE fascist_policies')
                           = DeckCount(deck, c) + discard[k]
                             + (IF c = "Liberal" THEN liberal_policies
                                ELSE fascist_policies)
                /\ PoliciesEnacted' = PoliciesEnacted + 1
                /\ pc' = "loop"]_vars

\* The tracker has reached 3 while the deck is empty and the discard pile
\* is not.
C34_TopDeckOnEmptyDeck ==
    /\ pc = "top_deck"
    /\ election_tracker >= 3
    /\ DeckLen(deck) = 0
    /\ PileLen(discard) > 0

\* C35: policy peek removes no card: it leaves the cards of deck and discard
\* pile together as they were, leaves the size of the deck and the discard
\* pile untouched when the deck holds at least 3 cards, and the three cards
\* it reveals are, in the same order, the cards of the next draw_policies(3)
\* when no top-deck comes between (the governments of all rounds since the
\* peek, fewer than three, were voted down).
C35_PeekRemovesNothing ==
    [][/\ (pc = "power" /\ ThePower = "policy_peek") =>
            /\ pc' = "loop"
            /\ hand' = hand
            /\ \A c \in Card :
                   LET k == IF c = "Liberal" THEN "L" ELSE "F"
                   IN  DeckCount(deck', c) + discard'[k] = DeckCount(deck, c) + discard[k]
            /\ DeckLen(deck) >= 3 =>
                   /\ discard' = discard
                   /\ \A c \in Card : DeckCount(deck', c) = DeckCount(deck, c)
            /\ record'.peek.round = round_no
            /\ Len(record'.peek.seen_policies) = 3
       /\ (/\ pc = "session"
           /\ pc' = "pres_discard"
           /\ record.peek.round > 0
           /\ election_tracker = round_no - record.peek.round - 1)
             => hand' = record.peek.seen_policies]_vars

\* The first legislative session after a policy peek, one failed government
\* later, has drawn the three cards that the peek revealed.
C35_DrawnAsRevealed ==
    /\ pc = "pres_discard"
    /\ record.peek.round > 0
    /\ election_tracker = 1
    /\ round_no = record.peek.round + 2
    /\ hand = record.peek.seen_policies

\* C36: in a run in which no veto is accepted, a round that does not end the
\* game either enacts a policy, which resets the tracker, or is a failed
\* government that adds one to the tracker without enacting, and the
\* tracker is below 3 between rounds: no three rounds running pass without
\* an enactment, and r rounds have enacted at least (r - tracker) / 3
\* policies, which bounds the rounds of a game by its policies.
C36_ProgressWithoutVeto ==
    [][/\ PoliciesEnacted' # PoliciesEnacted =>
              PoliciesEnacted' = PoliciesEnacted + 1 /\ election_tracker' = 0
       /\ election_tracker' # election_tracker =>
              \/ PoliciesEnacted' = PoliciesEnacted + 1 /\ election_tracker' = 0
              \/ /\ pc = "government" /\ ~passed
                 /\ election_tracker' = election_tracker + 1
       /\ (pc = "loop" /\ pc' = "vote") => round_no' = round_no + 1
       /\ (pc' = "loop" /\ winner' = NoWinner) =>
              /\ election_tracker' <= 2
              /\ round_no' <= 3 * PoliciesEnacted' + election_tracker'
              /\ (election_tracker' = 0 /\ round_no' >= 1) => PoliciesEnacted' >= 1]_vars

\* Six rounds of failed governments have top-decked two policies.
C36_TwoTopDecks ==
    /\ pc = "loop"
    /\ round_no = 6
    /\ PoliciesEnacted = 2
    /\ election_tracker = 0
    /\ last_elected_president = NoName

\* What C37 says of the knowledge of a constructed game.
KnowledgeAsSetUp ==
    LET fascists == {p \in DOMAIN roles : roles[p] = "Fascist"}
        hitlers == {p \in DOMAIN roles : roles[p] = "Hitler"}
    IN  /\ DOMAIN knowledge = DOMAIN roles
        /\ \A p \in DOMAIN roles :
              /\ roles[p] = "Fascist" =>
                     knowledge[p].known_allies = (fascists \ {p}) \cup hitlers
              /\ roles[p] = "Hitler" =>
                     /\ knowledge[p].known_allies # {} <=> Len(roles) <= 6
                     /\ knowledge[p].known_allies # {} =>
                            \E f \in fascists : knowledge[p].known_allies = {f}
              /\ roles[p] = "Liberal" => knowledge[p] = NoKnowledge

\* C37: once the game is constructed every Fascist knows exactly the other
\* Fascists and Hitler, Hitler knows one Fascist exactly at a table of 6 or
\* fewer, no Liberal knows an ally or has the knows_fascists flag, and no
\* later step changes what anybody knows.
C37_SetupKnowledge ==
    [][/\ pc' \notin {"new", "setup_error"} => KnowledgeAsSetUp'
       /\ pc \notin {"new", "setup_error"} => knowledge' = knowledge]_vars

====
